---------------------------- MODULE Spec2Model ----------------------------
(***************************************************************************)
(* Cloud configuration resolution of the clientconfig package:             *)
(* GetCloudFromYAML reads clouds.yaml, clouds-public.yaml and secure.yaml  *)
(* through the YAMLOptsBuilder loaders, picks one cloud entry, merges the  *)
(* profile, the secure entry and the region override into it and           *)
(* normalises Verify, EndpointType and Interface.  AuthOptions builds the  *)
(* gophercloud.AuthOptions of a cloud: it resolves the cloud, determines   *)
(* the identity API version and calls v2auth or v3auth.                    *)
(*                                                                         *)
(* Go values are represented as follows.                                   *)
(*   string            a TLA+ string, "" is the zero value                 *)
(*   *T (pointer)      a sequence of length 0 (nil) or 1 (<<value>>)       *)
(*   []Region          a sequence of [Name, Values] records                *)
(*   map[string]Cloud  a function from a finite set of names to Cloud      *)
(*   error             a string, NoErr ("") is nil                         *)
(***************************************************************************)
EXTENDS Naturals, Sequences, FiniteSets, TLC

VARIABLES
    files,      \* the three YAML files as they are on disk
    environ,    \* the process environment: prefix -> variable -> value
    opts,       \* the *ClientOpts the call is made with
    pc,         \* "start" before the call, "done" after it returned
    loaded,     \* the loaders of opts.YAMLOpts the call has invoked
    cloudName,  \* GetCloudFromYAML's local cloudName when it returned
    selected,   \* its local cloud after the lookup in clouds.yaml
    merged,     \* its local cloud before EndpointType/Interface are normalised
    cloud,      \* the returned *Cloud; for AuthOptions its local cloud at line 397
    err,        \* the returned error
    identityAPI, \* AuthOptions' local identityAPI ("" when it is not reached)
    authEnv,    \* *cloud.AuthInfo after the environment fallback of v2auth/v3auth
    authOut,    \* *cloud.AuthInfo when v2auth/v3auth returns
    ao,         \* the returned *gophercloud.AuthOptions
    given,      \* opts.AuthInfo as the caller built it, before any call
    lookup,     \* IDFromName: the package, the name asked for and what the service holds
    found,      \* IDFromName: the returned ID and error
    service,    \* NewServiceClient: the service argument
    net,        \* NewServiceClient: how far the calls into gophercloud succeed
    client,     \* NewServiceClient: the returned client and error
    purge,      \* ProjectPurge*: the arguments and what the project holds
    log,        \* ProjectPurge*: the requests issued, in order, with their outcome
    called      \* ProjectPurge*: the function that was called

vars == <<files, environ, opts, pc, loaded, cloudName, selected, merged, cloud, err,
          identityAPI, authEnv, authOut, ao, given,
          lookup, found, service, net, client, purge, log, called>>

\* The variables of the name lookups, of NewServiceClient and of the purge.
namesVars == <<lookup, found>>
clientVars == <<service, net, client>>
purgeVars == <<purge, log, called>>

-----------------------------------------------------------------------------
(* Bounds *)

\* The longest region list of a cloud entry.
MaxRegions == 2

-----------------------------------------------------------------------------
(* Data model: Cloud and AuthInfo *)

Nil == <<>>

Ptr(v) == <<v>>

NoErr == ""

EmptyAuthInfo ==
    [ AuthURL |-> "", Token |-> "", Username |-> "", UserID |-> "",
      Password |-> "", ApplicationCredentialID |-> "",
      ApplicationCredentialName |-> "", ApplicationCredentialSecret |-> "",
      SystemScope |-> "", ProjectName |-> "", ProjectID |-> "",
      UserDomainName |-> "", UserDomainID |-> "", ProjectDomainName |-> "",
      ProjectDomainID |-> "", DomainName |-> "", DomainID |-> "",
      DefaultDomain |-> "", AllowReauth |-> FALSE ]

EmptyCloud ==
    [ Cloud |-> "", Profile |-> "", AuthInfo |-> Nil, AuthType |-> "",
      RegionName |-> "", Regions |-> <<>>, EndpointType |-> "",
      Interface |-> "", Verify |-> Nil, CACertFile |-> "",
      ClientCertFile |-> "", ClientKeyFile |-> "",
      IdentityAPIVersion |-> "", VolumeAPIVersion |-> "" ]

CloudFields == DOMAIN EmptyCloud

AuthFields == DOMAIN EmptyAuthInfo

\* The fields of Cloud that are pointers or slices: their zero value is the
\* empty sequence.
SeqFields == {"AuthInfo", "Regions", "Verify"}

\* Whether value v of field f is the zero value of the field's Go type.
IsZero(f, v) ==
    IF f \in SeqFields THEN Len(v) = 0
    ELSE IF f = "AllowReauth" THEN v = FALSE
    ELSE v = ""

\* A record as base, with the fields of over replacing base's.
With(base, over) ==
    [f \in DOMAIN base |-> IF f \in DOMAIN over THEN over[f] ELSE base[f]]


-----------------------------------------------------------------------------
(* Helpers of the package that GetCloudFromYAML calls *)

\* The merge of two *AuthInfo values: field by field, high's non-zero
\* fields override low's.
MergeAuthInfo(low, high) ==
    IF high = Nil THEN low
    ELSE IF low = Nil THEN high
    ELSE Ptr([f \in AuthFields |->
                IF IsZero(f, high[1][f]) THEN low[1][f] ELSE high[1][f]])

\* mergeClouds(low, high): field by field, the non-zero fields of high
\* override low, the zero fields of high keep low's value.
mergeClouds(low, high) ==
    [f \in CloudFields |->
        IF f = "AuthInfo" THEN MergeAuthInfo(low.AuthInfo, high.AuthInfo)
        ELSE IF IsZero(f, high[f]) THEN low[f] ELSE high[f]]

defaultIfEmpty(value, defaultValue) ==
    IF value = "" THEN defaultValue ELSE value

\* env.Getenv(prefix + name)
Getenv(env, prefix, name) == env[prefix][name]

-----------------------------------------------------------------------------
(* The YAML loaders.  A file is [st, doc]: st is "ok", "missing" or        *)
(* "malformed", doc the clouds mapping of a file that parses.  A loader    *)
(* returns [clouds, isNil, err]: isNil tells a nil map from an empty one.  *)

NoClouds == <<>>

Loaded(m, isNil, e) == [clouds |-> m, isNil |-> isNil, err |-> e]

LoadCloudsYAML(file) ==
    IF file.st = "missing" THEN Loaded(NoClouds, TRUE, "no clouds.yaml file found")
    ELSE IF file.st = "malformed" THEN Loaded(NoClouds, TRUE, "failed to unmarshal yaml")
    ELSE Loaded(file.doc, FALSE, NoErr)

\* Faulty variant of LoadSecureCloudsYAML: a missing secure.yaml is an error.
LoadSecureCloudsYAMLStrict(file) ==
    IF file.st = "missing" THEN Loaded(NoClouds, TRUE, "no secure.yaml file found")
    ELSE IF file.st = "malformed" THEN Loaded(NoClouds, TRUE, "failed to unmarshal yaml")
    ELSE Loaded(file.doc, FALSE, NoErr)

LoadSecureCloudsYAML(file) ==
    IF file.st = "missing" THEN Loaded(NoClouds, TRUE, NoErr)
    ELSE IF file.st = "malformed" THEN Loaded(NoClouds, TRUE, "failed to unmarshal yaml")
    ELSE Loaded(file.doc, FALSE, NoErr)

LoadPublicCloudsYAML(file) ==
    IF file.st = "missing" THEN Loaded(NoClouds, TRUE, NoErr)
    ELSE IF file.st = "malformed" THEN Loaded(NoClouds, TRUE, "failed to unmarshal yaml")
    ELSE Loaded(file.doc, FALSE, NoErr)

\* len(m) of a map
LenMap(m) == Cardinality(DOMAIN m)

\* The entry that "for _, v := range m" leaves in v when len(m) = 1.
SoleEntry(m) == m[CHOOSE n \in DOMAIN m : TRUE]

\* m[key] of a map[string]Cloud: the zero Cloud when the key is absent.
Lookup(m, key) == IF key \in DOMAIN m THEN m[key] ELSE EmptyCloud

-----------------------------------------------------------------------------
(* GetCloudFromYAML, block by block.  A result is                          *)
(* [cloud, err, cloudName, loaded, merged]: the two return values, the     *)
(* local cloudName, the loaders called, and the local cloud as it is       *)
(* before the EndpointType/Interface normalisation (nil on failure).       *)

Ret(c, e, name, ld, m) ==
    [cloud |-> c, err |-> e, cloudName |-> name, loaded |-> ld, merged |-> m]

Fail(e, name, ld) == Ret(Nil, e, name, ld, Nil)

EnvPrefixOf(o) == IF o.EnvPrefix # "" THEN o.EnvPrefix ELSE "OS_"

\* Faulty variant of CloudNameOf: the environment variable is read first.
CloudNameEnvFirst(o, env) ==
    IF Getenv(env, EnvPrefixOf(o), "CLOUD") # ""
    THEN Getenv(env, EnvPrefixOf(o), "CLOUD")
    ELSE o.Cloud

\* Determine which cloud to use: opts.Cloud, else ${EnvPrefix}CLOUD.
CloudNameOf(o, env) ==
    IF o.Cloud # "" THEN o.Cloud
    ELSE Getenv(env, EnvPrefixOf(o), "CLOUD")

\* Faulty variant of SelectCloud: the sole-entry default is skipped.
SelectCloudNoDefault(clouds, name) ==
    IF name # "" THEN Ptr(Lookup(clouds, name)) ELSE Nil

\* The local cloud after the lookup of name (which is in clouds when it is
\* non-empty) and the sole-entry default.
SelectCloud(clouds, name) ==
    IF name # "" THEN Ptr(Lookup(clouds, name))
    ELSE IF LenMap(clouds) = 1 THEN Ptr(SoleEntry(clouds))
    ELSE Nil

\* Faulty variant of Normalize: Interface replaces EndpointType whenever it is set.
NormalizeInterfaceWins(c) ==
    With(c, [EndpointType |-> IF c.Interface # "" THEN c.Interface ELSE c.EndpointType,
             Interface |-> ""])

\* Standardise on EndpointType and clear Interface.
Normalize(c) ==
    With(c, [EndpointType |-> IF c.Interface # "" /\ c.EndpointType = ""
                               THEN c.Interface ELSE c.EndpointType,
             Interface |-> ""])

\* Default is to verify SSL API requests.
DefaultVerify(c) ==
    IF c.Verify = Nil THEN With(c, [Verify |-> Ptr(TRUE)]) ELSE c

\* The indexes of the region entries named name.
RegionMatches(regions, name) == {i \in 1..Len(regions) : regions[i].Name = name}

Min(S) == CHOOSE i \in S : \A j \in S : i <= j

\* Merging per-region value overrides: the loop breaks at the first region
\* named opts.RegionName.
RegionOverride(c, o) ==
    IF o.RegionName # "" /\ RegionMatches(c.Regions, o.RegionName) # {}
    THEN mergeClouds(c.Regions[Min(RegionMatches(c.Regions, o.RegionName))].Values, c)
    ELSE c

\* Faulty variant of Finish: a nil cloud is replaced by an empty one.
FinishEmptyCloud(cur, o, name, ld) ==
    LET m == RegionOverride(DefaultVerify(IF cur = Nil THEN EmptyCloud ELSE cur[1]), o)
    IN  Ret(Ptr(Normalize(m)), NoErr, name, ld, Ptr(m))

\* From the final nil check to the return.
Finish(cur, o, name, ld) ==
    IF cur = Nil THEN Fail("Could not find cloud", name, ld)
    ELSE LET m == RegionOverride(DefaultVerify(cur[1]), o)
         IN  Ret(Ptr(Normalize(m)), NoErr, name, ld, Ptr(m))

\* reflect.DeepEqual(cloud, secureCloud): cloud is a *Cloud and secureCloud
\* a Cloud, and values of different types are never deeply equal.
DeepEqualPtrValue(cur, secureCloud) == FALSE

\* Load secure.yaml and see if a cloud entry can be found or merged.
SecureStep(cur, o, name, fs, ld) ==
    LET sec == LoadSecureCloudsYAML(fs.secure)
        ld2 == ld \cup {"secure"}
    IN  IF sec.err # NoErr THEN Fail("unable to load secure.yaml", name, ld2)
        ELSE IF sec.isNil THEN Finish(cur, o, name, ld2)
        ELSE
          LET cur2 == IF cur = Nil /\ name = "" /\ LenMap(sec.clouds) = 1
                      THEN Ptr(SoleEntry(sec.clouds)) ELSE cur
              ok == name \in DOMAIN sec.clouds
              secureCloud == Lookup(sec.clouds, name)
          IN  IF ~ok /\ cur2 = Nil THEN Fail("Could not find cloud", name, ld2)
              ELSE IF secureCloud # EmptyCloud /\ ~DeepEqualPtrValue(cur2, secureCloud)
                   THEN Finish(Ptr(mergeClouds(secureCloud, cur2[1])), o, name, ld2)
                   ELSE Finish(cur2, o, name, ld2)

\* profileName := defaultIfEmpty(cloud.Profile, cloud.Cloud)
ProfileNameOf(c) == defaultIfEmpty(c.Profile, c.Cloud)

\* Faulty variant of HasProfile: a profile missing from the catalog is not noticed.
HasProfileAlways(publicClouds, profileName) == TRUE

\* publicCloud, ok := publicClouds[profileName]
HasProfile(publicClouds, profileName) == profileName \in DOMAIN publicClouds

\* Faulty variant of ProfileStep: the profile is looked up and not merged.
ProfileStepNoMerge(cur, o, name, fs, ld) ==
    IF cur = Nil \/ ProfileNameOf(cur[1]) = ""
    THEN SecureStep(cur, o, name, fs, ld)
    ELSE
      LET pub == LoadPublicCloudsYAML(fs.public)
          profileName == ProfileNameOf(cur[1])
          ld2 == ld \cup {"public"}
      IN  IF pub.err # NoErr
          THEN Fail("unable to load clouds-public.yaml", name, ld2)
          ELSE IF ~HasProfile(pub.clouds, profileName)
          THEN Fail("cloud does not exist in clouds-public.yaml", name, ld2)
          ELSE SecureStep(cur, o, name, fs, ld2)

\* A profile points to a public cloud entry: load the public clouds and
\* merge the entry with the current cloud data.
ProfileStep(cur, o, name, fs, ld) ==
    IF cur = Nil \/ ProfileNameOf(cur[1]) = ""
    THEN SecureStep(cur, o, name, fs, ld)
    ELSE
      LET pub == LoadPublicCloudsYAML(fs.public)
          profileName == ProfileNameOf(cur[1])
          ld2 == ld \cup {"public"}
      IN  IF pub.err # NoErr
          THEN Fail("unable to load clouds-public.yaml", name, ld2)
          ELSE IF ~HasProfile(pub.clouds, profileName)
          THEN Fail("cloud does not exist in clouds-public.yaml", name, ld2)
          ELSE SecureStep(Ptr(mergeClouds(cur[1], Lookup(pub.clouds, profileName))),
                          o, name, fs, ld2)

\* The whole call: [cloud, err, cloudName, loaded, merged, selected], where
\* selected is the local cloud after the lookup in clouds.yaml.
GetCloudFromYAMLResult(o, fs, env) ==
    LET primary == LoadCloudsYAML(fs.clouds)
        name == CloudNameOf(o, env)
        sel == SelectCloud(primary.clouds, name)
        r == IF primary.err # NoErr
             THEN Fail("unable to load clouds.yaml", "", {"clouds"})
             ELSE IF name # "" /\ name \notin DOMAIN primary.clouds
             THEN Fail("cloud does not exist in clouds.yaml", name, {"clouds"})
             ELSE ProfileStep(sel, o, name, fs, {"clouds"})
        reached == primary.err = NoErr /\ (name = "" \/ name \in DOMAIN primary.clouds)
    IN  [ cloud |-> r.cloud, err |-> r.err, cloudName |-> r.cloudName,
          loaded |-> r.loaded, merged |-> r.merged,
          selected |-> IF reached THEN sel ELSE Nil ]

-----------------------------------------------------------------------------
(* AuthOptions and the functions it calls.  A gophercloud.AuthOptions is a *)
(* record and its Scope a pointer to an AuthScope record.  v2auth and      *)
(* v3auth return [ao, err, authEnv, authOut]: the two return values and    *)
(* *cloud.AuthInfo after the environment fallback and at the return.       *)

EmptyScope ==
    [ ProjectID |-> "", ProjectName |-> "", DomainID |-> "", DomainName |-> "",
      System |-> FALSE ]

EmptyAuthOptions ==
    [ Scope |-> Nil, IdentityEndpoint |-> "", TokenID |-> "", Username |-> "",
      UserID |-> "", Password |-> "", TenantID |-> "", TenantName |-> "",
      DomainID |-> "", DomainName |-> "", ApplicationCredentialID |-> "",
      ApplicationCredentialName |-> "", ApplicationCredentialSecret |-> "",
      AllowReauth |-> FALSE ]

\* The values of AuthType: the constants of the package and the unset one.
AuthTypes ==
    { "", "password", "token", "v2password", "v2token", "v3password", "v3token",
      "v3applicationcredential" }

\* strings.Contains(s, substr), for s an auth URL or an auth type of the
\* model and substr one of the three substrings the package looks for.
Contains(s, substr) ==
    CASE substr = "v2.0"  -> s \in {"https://id/v2.0", "https://id/v2.0/v3"}
      [] substr = "v3"    -> s \in {"https://id/v3", "https://id/v2.0/v3", "https://primary/v3",
                                    "https://vendor/v3", "https://env/v3", "v3password",
                                    "v3token", "v3applicationcredential"}
      [] substr = "token" -> s \in {"token", "v2token", "v3token"}

determineIdentityAPI(c, o, env) ==
    LET v == Getenv(env, EnvPrefixOf(o), "IDENTITY_API_VERSION")
        fromEnv == IF v # "" THEN v ELSE c.IdentityAPIVersion
        fromURL ==
            IF fromEnv # "" \/ c.AuthInfo = Nil THEN fromEnv
            ELSE IF Contains(c.AuthInfo[1].AuthURL, "v3") THEN "3"
            ELSE IF Contains(c.AuthInfo[1].AuthURL, "v2.0") THEN "2.0"
            ELSE ""
        fromType ==
            IF fromURL # "" THEN fromURL
            ELSE IF c.AuthType \in {"v2password", "v2token"} THEN "2.0"
            ELSE IF c.AuthType \in {"v3password", "v3token", "v3applicationcredential"} THEN "3"
            ELSE ""
    IN  IF fromType = "" THEN "3" ELSE fromType

\* The variables v2auth reads for each field, in the order it reads them.
V2EnvNames ==
    [ AuthURL |-> <<"AUTH_URL">>, Token |-> <<"TOKEN", "AUTH_TOKEN">>,
      Username |-> <<"USERNAME">>, Password |-> <<"PASSWORD">>,
      ProjectID |-> <<"TENANT_ID", "PROJECT_ID">>,
      ProjectName |-> <<"TENANT_NAME", "PROJECT_NAME">> ]

\* The variables v3auth reads for each field, in the order it reads them.
V3EnvNames ==
    [ AuthURL |-> <<"AUTH_URL">>, Token |-> <<"TOKEN", "AUTH_TOKEN">>,
      Username |-> <<"USERNAME">>, UserID |-> <<"USER_ID">>,
      Password |-> <<"PASSWORD">>,
      ProjectID |-> <<"TENANT_ID", "PROJECT_ID">>,
      ProjectName |-> <<"TENANT_NAME", "PROJECT_NAME">>,
      DomainID |-> <<"DOMAIN_ID">>, DomainName |-> <<"DOMAIN_NAME">>,
      DefaultDomain |-> <<"DEFAULT_DOMAIN">>,
      ProjectDomainID |-> <<"PROJECT_DOMAIN_ID">>,
      ProjectDomainName |-> <<"PROJECT_DOMAIN_NAME">>,
      UserDomainID |-> <<"USER_DOMAIN_ID">>,
      UserDomainName |-> <<"USER_DOMAIN_NAME">>,
      ApplicationCredentialID |-> <<"APPLICATION_CREDENTIAL_ID">>,
      ApplicationCredentialName |-> <<"APPLICATION_CREDENTIAL_NAME">>,
      ApplicationCredentialSecret |-> <<"APPLICATION_CREDENTIAL_SECRET">>,
      SystemScope |-> <<"SYSTEM_SCOPE">> ]

\* What a field holding value is left with after
\* "if v := env.Getenv(envPrefix + name); v != "" { field = v }" for each
\* name in turn.
RECURSIVE ReadEnv(_, _, _, _)
ReadEnv(value, env, prefix, names) ==
    IF names = <<>> THEN value
    ELSE LET v == Getenv(env, prefix, Head(names))
         IN  ReadEnv(IF v # "" THEN v ELSE value, env, prefix, Tail(names))

\* Faulty variant of EnvFallback: a variable that is set replaces the field.
EnvFallbackEnvWins(info, env, prefix, names) ==
    [f \in AuthFields |->
        IF f \in DOMAIN names THEN ReadEnv(info[f], env, prefix, names[f])
        ELSE info[f]]

\* Environment variable overrides: each field that is empty reads its
\* variables.
EnvFallback(info, env, prefix, names) ==
    [f \in AuthFields |->
        IF f \in DOMAIN names /\ info[f] = "" THEN ReadEnv(info[f], env, prefix, names[f])
        ELSE info[f]]

isProjectScoped(authInfo) ==
    ~(authInfo.ProjectID = "" /\ authInfo.ProjectName = "")

\* Faulty variant of isApplicationCredential: only the ID is looked at.
isApplicationCredentialIDOnly(authInfo) == authInfo.ApplicationCredentialID # ""

isApplicationCredential(authInfo) ==
    ~(authInfo.ApplicationCredentialID = "" /\ authInfo.ApplicationCredentialName = ""
        /\ authInfo.ApplicationCredentialSecret = "")

\* if cloud.AuthInfo.DomainID != "" { ... }
UseDomainID(info) ==
    IF info.DomainID = "" THEN info
    ELSE With(info,
           [ UserDomainID |-> IF info.UserDomainID = "" THEN info.DomainID
                              ELSE info.UserDomainID,
             ProjectDomainID |-> IF info.ProjectDomainID = "" THEN info.DomainID
                                 ELSE info.ProjectDomainID,
             DomainID |-> "" ])

\* if cloud.AuthInfo.DomainName != "" { ... }
UseDomainName(info) ==
    IF info.DomainName = "" THEN info
    ELSE With(info,
           [ UserDomainName |-> IF info.UserDomainName = "" THEN info.DomainName
                                ELSE info.UserDomainName,
             ProjectDomainName |-> IF info.ProjectDomainName = "" THEN info.DomainName
                                   ELSE info.ProjectDomainName,
             DomainName |-> "" ])

\* Faulty variant of UseDefaultDomain: DefaultDomain fills an empty domain id even
\* when the domain name is set.
UseDefaultDomainIgnoringNames(info) ==
    IF info.DefaultDomain = "" THEN info
    ELSE With(info,
           [ UserDomainID |-> IF info.UserDomainID = "" THEN info.DefaultDomain
                              ELSE info.UserDomainID,
             ProjectDomainID |-> IF info.ProjectDomainID = "" THEN info.DefaultDomain
                                 ELSE info.ProjectDomainID ])

\* if cloud.AuthInfo.DefaultDomain != "" { ... }
UseDefaultDomain(info) ==
    IF info.DefaultDomain = "" THEN info
    ELSE With(info,
           [ UserDomainID |-> IF info.UserDomainName = "" /\ info.UserDomainID = ""
                              THEN info.DefaultDomain ELSE info.UserDomainID,
             ProjectDomainID |-> IF info.ProjectDomainName = "" /\ info.ProjectDomainID = ""
                                 THEN info.DefaultDomain ELSE info.ProjectDomainID ])

\* setDomainIfNeeded on *cloud.AuthInfo.
setDomainIfNeeded(info) == UseDefaultDomain(UseDomainName(UseDomainID(info)))

\* Faulty variant of DomainScope: the domain name is set next to the domain id.
DomainScopeBoth(info) ==
    With(EmptyScope, [DomainID |-> info.DomainID, DomainName |-> info.DomainName,
                      System |-> info.SystemScope # ""])

\* The scope of an auth that is not project scoped.
DomainScope(info) ==
    With(EmptyScope,
         [ DomainID |-> info.DomainID,
           DomainName |-> IF info.DomainID = "" THEN info.DomainName ELSE "",
           System |-> info.SystemScope # "" ])

\* Faulty variant of ProjectScope: the project name and its domain are always set.
ProjectScopeWithName(info) ==
    With(EmptyScope, [ProjectID |-> info.ProjectID, ProjectName |-> info.ProjectName,
                      DomainID |-> info.ProjectDomainID,
                      DomainName |-> info.ProjectDomainName])

\* The scope of a project scoped auth, after setDomainIfNeeded.
ProjectScope(info) ==
    IF info.ProjectID # "" THEN With(EmptyScope, [ProjectID |-> info.ProjectID])
    ELSE With(EmptyScope, [ProjectName |-> info.ProjectName,
                           DomainID |-> info.ProjectDomainID,
                           DomainName |-> info.ProjectDomainName])

\* Build a scope: [envInfo, info, scope], envInfo being *cloud.AuthInfo
\* before and info after.
BuildScope(info) ==
    IF isApplicationCredential(info)
    THEN [envInfo |-> info, info |-> setDomainIfNeeded(info), scope |-> EmptyScope]
    ELSE IF ~isProjectScoped(info)
    THEN [envInfo |-> info, info |-> info, scope |-> DomainScope(info)]
    ELSE [envInfo |-> info, info |-> setDomainIfNeeded(info),
          scope |-> ProjectScope(setDomainIfNeeded(info))]

\* ao := &gophercloud.AuthOptions{...} of v3auth, for s as BuildScope gives it.
V3Options(s) ==
    With(EmptyAuthOptions,
         [ Scope |-> Ptr(s.scope),
           IdentityEndpoint |-> s.info.AuthURL, TokenID |-> s.info.Token,
           Username |-> s.info.Username, UserID |-> s.info.UserID,
           Password |-> s.info.Password,
           TenantID |-> s.info.ProjectID, TenantName |-> s.info.ProjectName,
           DomainID |-> s.info.UserDomainID, DomainName |-> s.info.UserDomainName,
           ApplicationCredentialID |-> s.info.ApplicationCredentialID,
           ApplicationCredentialName |-> s.info.ApplicationCredentialName,
           ApplicationCredentialSecret |-> s.info.ApplicationCredentialSecret,
           AllowReauth |-> s.info.AllowReauth ])

\* Unsetting the other auth options for an auth_type of token.
ClearForToken(options, authType) ==
    IF Contains(authType, "token") \/ options.TokenID # ""
    THEN With(options, [Username |-> "", Password |-> "", UserID |-> "",
                        DomainID |-> "", DomainName |-> ""])
    ELSE options

AuthRet(options, e, envInfo, outInfo) ==
    [ao |-> options, err |-> e, authEnv |-> envInfo, authOut |-> outInfo]

\* Check for absolute minimum requirements, and return.
CheckEndpoint(s, options) ==
    IF options.IdentityEndpoint = ""
    THEN AuthRet(Nil, "Missing input for argument [auth_url]", Ptr(s.envInfo), Ptr(s.info))
    ELSE AuthRet(Ptr(options), NoErr, Ptr(s.envInfo), Ptr(s.info))

\* ao := &gophercloud.AuthOptions{...} of v2auth, and its return.
V2Options(info) ==
    AuthRet(Ptr(With(EmptyAuthOptions,
                     [ IdentityEndpoint |-> info.AuthURL, TokenID |-> info.Token,
                       Username |-> info.Username, Password |-> info.Password,
                       TenantID |-> info.ProjectID, TenantName |-> info.ProjectName,
                       AllowReauth |-> info.AllowReauth ])),
            NoErr, Ptr(info), Ptr(info))

v2auth(c, o, env) ==
    V2Options(EnvFallback(c.AuthInfo[1], env, EnvPrefixOf(o), V2EnvNames))

\* v3auth from the scope on, for s as BuildScope gives it.
V3FromScope(s, authType) == CheckEndpoint(s, ClearForToken(V3Options(s), authType))

v3auth(c, o, env) ==
    V3FromScope(BuildScope(EnvFallback(c.AuthInfo[1], env, EnvPrefixOf(o), V3EnvNames)),
                c.AuthType)

\* What AuthOptions has of GetCloudFromYAML when it does not call it:
\* cloud := new(Cloud).
NoLookup ==
    [ cloud |-> Ptr(EmptyCloud), err |-> NoErr, cloudName |-> "", loaded |-> {},
      merged |-> Nil, selected |-> Nil ]

\* The cloud with its AuthInfo set: its own, else opts.AuthInfo (the same
\* pointer), else a new AuthInfo.
WithAuthInfo(c, o) ==
    IF c.AuthInfo # Nil THEN c
    ELSE With(c, [AuthInfo |-> IF o.AuthInfo # Nil THEN o.AuthInfo ELSE Ptr(EmptyAuthInfo)])

\* switch identityAPI
SwitchIdentityAPI(api, c, o, env) ==
    IF api \in {"2.0", "2"} THEN v2auth(c, o, env)
    ELSE IF api = "3" THEN v3auth(c, o, env)
    ELSE AuthRet(Nil, "Unable to build AuthOptions", Nil, Nil)

\* The result of a call that got to the switch: g is what GetCloudFromYAML
\* gave, c the local cloud at the switch and r what v2auth or v3auth
\* returned.  optsAuthInfo is opts.AuthInfo after the call: when the resolved
\* cloud has no auth section, cloud.AuthInfo is the pointer opts.AuthInfo and
\* what v2auth/v3auth write to *cloud.AuthInfo is written to *opts.AuthInfo.
AuthResult(g, c, o, api, r) ==
    [ ao |-> r.ao, err |-> r.err, cloud |-> Ptr(c), identityAPI |-> api,
      authEnv |-> r.authEnv, authOut |-> r.authOut,
      optsAuthInfo |-> IF g.cloud[1].AuthInfo = Nil /\ o.AuthInfo # Nil /\ r.authOut # Nil
                       THEN r.authOut ELSE o.AuthInfo,
      cloudName |-> g.cloudName, loaded |-> g.loaded,
      selected |-> g.selected, merged |-> g.merged ]

\* From "identityAPI := determineIdentityAPI(cloud, opts)" on.
BuildFor(g, c, o, env, api) == AuthResult(g, c, o, api, SwitchIdentityAPI(api, c, o, env))

\* From the error check of GetCloudFromYAML on.
AfterLookup(g, o, env) ==
    IF g.err # NoErr
    THEN [ ao |-> Nil, err |-> g.err, cloud |-> Nil, identityAPI |-> "",
           authEnv |-> Nil, authOut |-> Nil, optsAuthInfo |-> o.AuthInfo,
           cloudName |-> g.cloudName, loaded |-> g.loaded,
           selected |-> g.selected, merged |-> g.merged ]
    ELSE BuildFor(g, WithAuthInfo(g.cloud[1], o), o, env,
                  determineIdentityAPI(WithAuthInfo(g.cloud[1], o), o, env))

\* Faulty variant of AuthOptionsResult: GetCloudFromYAML is called whether
\* a cloud name was determined or not.
AuthOptionsResultAlwaysLookup(o, fs, env) ==
    AfterLookup(GetCloudFromYAMLResult(o, fs, env), o, env)

\* The whole call: the return values ao and err, the local cloud when
\* determineIdentityAPI is called (nil when GetCloudFromYAML failed), the
\* locals of v2auth/v3auth and of GetCloudFromYAML, and opts.AuthInfo after
\* the call.
AuthOptionsResult(o, fs, env) ==
    IF CloudNameOf(o, env) # ""
    THEN AfterLookup(GetCloudFromYAMLResult(o, fs, env), o, env)
    ELSE AfterLookup(NoLookup, o, env)

-----------------------------------------------------------------------------
(* The variables of the functions that are not called *)

NoLookupCall == lookup = Nil /\ found = Nil

NoClientCall == service = "" /\ net = "" /\ client = Nil

NoPurgeCall == purge = Nil /\ log = <<>> /\ called = ""

-----------------------------------------------------------------------------
(* The inputs of a call: files, environment and options *)

File(st, doc) == [st |-> st, doc |-> doc]

AuthPrimary == With(EmptyAuthInfo, [AuthURL |-> "https://primary/v3", Username |-> "alice"])

AuthVendor == With(EmptyAuthInfo, [AuthURL |-> "https://vendor/v3", ProjectName |-> "demo"])

AuthSecure == With(EmptyAuthInfo, [Username |-> "svc", Password |-> "secret"])

RegionEntries ==
    { [Name |-> "r1", Values |-> With(EmptyCloud, [EndpointType |-> "internal", Verify |-> Ptr(FALSE)])],
      [Name |-> "r1", Values |-> With(EmptyCloud, [Interface |-> "admin", CACertFile |-> "/r1.pem"])],
      [Name |-> "r2", Values |-> With(EmptyCloud, [EndpointType |-> "admin"])] }

RegionLists == UNION {[1..n -> RegionEntries] : n \in 0..MaxRegions}

VendorRegions ==
    << [Name |-> "r2", Values |-> With(EmptyCloud, [EndpointType |-> "admin"])],
       [Name |-> "r1", Values |-> With(EmptyCloud, [Interface |-> "internal", Verify |-> Ptr(FALSE)])] >>

\* The values of the entry "mycloud" of clouds.yaml.
PrimaryClouds ==
    { EmptyCloud,
      With(EmptyCloud, [AuthInfo |-> Ptr(AuthPrimary), EndpointType |-> "public", Verify |-> Ptr(FALSE)]),
      With(EmptyCloud, [Profile |-> "vendorX"]),
      With(EmptyCloud, [Profile |-> "vendorX", AuthInfo |-> Ptr(AuthPrimary), Interface |-> "internal",
                        Verify |-> Ptr(FALSE), CACertFile |-> "/my.pem",
                        Regions |-> << [Name |-> "r1", Values |-> With(EmptyCloud, [EndpointType |-> "public"])] >>]),
      With(EmptyCloud, [Cloud |-> "vendorX", EndpointType |-> "public"]),
      With(EmptyCloud, [Profile |-> "ghost", Cloud |-> "vendorX"]) }
    \cup { With(EmptyCloud, [Interface |-> "public", CACertFile |-> "/my.pem", Regions |-> l]) :
             l \in RegionLists }

\* The values of the entry "other" of clouds.yaml.
OtherClouds ==
    { With(EmptyCloud, [AuthInfo |-> Ptr(AuthPrimary), EndpointType |-> "admin", RegionName |-> "RegionTwo"]) }

\* The values of the entry "vendorX" of clouds-public.yaml.
VendorClouds ==
    { EmptyCloud,
      With(EmptyCloud, [AuthInfo |-> Ptr(AuthVendor), EndpointType |-> "internal", Regions |-> VendorRegions]),
      With(EmptyCloud, [Interface |-> "admin", Verify |-> Ptr(TRUE), IdentityAPIVersion |-> "3"]) }

\* The values of the entry "mycloud" of secure.yaml.
SecureClouds ==
    { EmptyCloud,
      With(EmptyCloud, [AuthInfo |-> Ptr(AuthSecure)]),
      With(EmptyCloud, [AuthInfo |-> Ptr(AuthSecure), Verify |-> Ptr(TRUE), EndpointType |-> "admin",
                        Interface |-> "internal"]) }

\* The values of the entry "other" of secure.yaml.
SecureOtherClouds == { With(EmptyCloud, [AuthInfo |-> Ptr(AuthSecure), CACertFile |-> "/other.pem"]) }

\* The maps with an optional entry a (from A) and an optional entry b (from B).
Docs(a, A, b, B) ==
    { NoClouds } \cup { a :> x : x \in A } \cup { b :> y : y \in B }
    \cup { (a :> x) @@ (b :> y) : x \in A, y \in B }

FilesOf(docs) == { File("missing", NoClouds), File("malformed", NoClouds) } \cup { File("ok", d) : d \in docs }

CloudsFiles == FilesOf(Docs("mycloud", PrimaryClouds, "other", OtherClouds))

PublicFiles ==
    FilesOf({NoClouds, "vendorY" :> EmptyCloud} \cup {"vendorX" :> v : v \in VendorClouds})

SecureFiles == FilesOf(Docs("mycloud", SecureClouds, "other", SecureOtherClouds))

Environs ==
    { [p \in {"OS_", "MY_"} |-> [v \in {"CLOUD"} |-> IF p = "OS_" THEN a ELSE b]] :
        a \in {"", "mycloud", "other"}, b \in {"", "other"} }

ClientOpts ==
    [ Cloud : {"", "mycloud"}, EnvPrefix : {"", "MY_"}, RegionName : {"", "r1", "r2"} ]

-----------------------------------------------------------------------------
(* The state machine: one call of GetCloudFromYAML on arbitrary inputs *)

Init ==
    /\ files \in [clouds : CloudsFiles, public : PublicFiles, secure : SecureFiles]
    /\ environ \in Environs
    /\ opts \in ClientOpts
    /\ pc = "start"
    /\ loaded = {}
    /\ cloudName = ""
    /\ selected = Nil
    /\ merged = Nil
    /\ cloud = Nil
    /\ err = NoErr
    /\ identityAPI = ""
    /\ authEnv = Nil
    /\ authOut = Nil
    /\ ao = Nil
    /\ given = Nil
    /\ NoLookupCall /\ NoClientCall /\ NoPurgeCall

GetCloudFromYAML ==
    /\ pc = "start"
    /\ LET r == GetCloudFromYAMLResult(opts, files, environ)
       IN  /\ cloud' = r.cloud
           /\ err' = r.err
           /\ cloudName' = r.cloudName
           /\ loaded' = r.loaded
           /\ selected' = r.selected
           /\ merged' = r.merged
    /\ pc' = "done"
    /\ UNCHANGED <<files, environ, opts, identityAPI, authEnv, authOut, ao, given>>
    /\ UNCHANGED <<namesVars, clientVars, purgeVars>>

Next == GetCloudFromYAML

Spec == Init /\ [][Next]_vars

-----------------------------------------------------------------------------
(* The inputs of a call of AuthOptions *)

Prefixes == {"OS_", "MY_"}

\* The variables the package reads, without their prefix.
EnvVars ==
    { "CLOUD", "IDENTITY_API_VERSION", "AUTH_URL", "TOKEN", "AUTH_TOKEN", "USERNAME",
      "USER_ID", "PASSWORD", "TENANT_ID", "PROJECT_ID", "TENANT_NAME", "PROJECT_NAME",
      "DOMAIN_ID", "DOMAIN_NAME", "DEFAULT_DOMAIN", "PROJECT_DOMAIN_ID",
      "PROJECT_DOMAIN_NAME", "USER_DOMAIN_ID", "USER_DOMAIN_NAME",
      "APPLICATION_CREDENTIAL_ID", "APPLICATION_CREDENTIAL_NAME",
      "APPLICATION_CREDENTIAL_SECRET", "SYSTEM_SCOPE", "REGION_NAME", "INTERFACE",
      "CACERT", "CERT", "KEY" }

\* The environment with the variables of vals set under prefix p and every
\* other variable unset.
EnvOf(p, vals) ==
    [q \in Prefixes |-> [v \in EnvVars |-> IF q = p /\ v \in DOMAIN vals THEN vals[v] ELSE ""]]

\* A value for each variable that v2auth and v3auth read.
EnvAll ==
    [ AUTH_URL |-> "https://env/v3", TOKEN |-> "env-tok", AUTH_TOKEN |-> "env-auth-tok",
      USERNAME |-> "env-user", USER_ID |-> "env-uid", PASSWORD |-> "env-pw",
      TENANT_ID |-> "env-tenant-id", PROJECT_ID |-> "env-project-id",
      TENANT_NAME |-> "env-tenant-name", PROJECT_NAME |-> "env-project-name",
      DOMAIN_ID |-> "env-domain-id", DOMAIN_NAME |-> "env-domain-name",
      DEFAULT_DOMAIN |-> "env-default", PROJECT_DOMAIN_ID |-> "env-pd-id",
      PROJECT_DOMAIN_NAME |-> "env-pd-name", USER_DOMAIN_ID |-> "env-ud-id",
      USER_DOMAIN_NAME |-> "env-ud-name", APPLICATION_CREDENTIAL_ID |-> "env-ac-id",
      APPLICATION_CREDENTIAL_NAME |-> "env-ac-name",
      APPLICATION_CREDENTIAL_SECRET |-> "env-ac-secret", SYSTEM_SCOPE |-> "all" ]

Restrict(vals, S) == [v \in S |-> vals[v]]

\* No variable set.
NoVars == Restrict(EnvAll, {})

\* An AuthInfo with every string field set.
FullAuthInfo ==
    [ AuthURL |-> "https://id/v3", Token |-> "tok", Username |-> "alice", UserID |-> "u-id",
      Password |-> "pw", ApplicationCredentialID |-> "ac-id",
      ApplicationCredentialName |-> "ac-name", ApplicationCredentialSecret |-> "ac-secret",
      SystemScope |-> "all", ProjectName |-> "p-name", ProjectID |-> "p-id",
      UserDomainName |-> "ud-name", UserDomainID |-> "ud-id",
      ProjectDomainName |-> "pd-name", ProjectDomainID |-> "pd-id",
      DomainName |-> "d-name", DomainID |-> "d-id", DefaultDomain |-> "default",
      AllowReauth |-> TRUE ]

\* The AuthInfo with the fields of S set as in FullAuthInfo and the others
\* zero.
AuthInfoOf(S) == [f \in AuthFields |-> IF f \in S THEN FullAuthInfo[f] ELSE EmptyAuthInfo[f]]

\* A call that names the entry mycloud of clouds.yaml, whose value is c.
YAMLCall(c, env, prefix) ==
    [ files |-> [ clouds |-> File("ok", "mycloud" :> c),
                  public |-> File("missing", NoClouds),
                  secure |-> File("missing", NoClouds) ],
      environ |-> env,
      opts |-> [Cloud |-> "mycloud", EnvPrefix |-> prefix, RegionName |-> "", AuthInfo |-> Nil] ]

\* A call that names no cloud and passes authInfo in opts.AuthInfo, next to
\* a clouds.yaml with one entry.
OptsCall(authInfo, env, prefix) ==
    [ files |-> [ clouds |-> File("ok", "other" :> With(EmptyCloud, [AuthInfo |-> Ptr(AuthPrimary)])),
                  public |-> File("missing", NoClouds),
                  secure |-> File("missing", NoClouds) ],
      environ |-> env,
      opts |-> [Cloud |-> "", EnvPrefix |-> prefix, RegionName |-> "", AuthInfo |-> authInfo] ]

\* Calls that differ in what the identity API version is determined from.
VersionClouds ==
    { With(EmptyCloud, [IdentityAPIVersion |-> v, AuthType |-> t, AuthInfo |-> a]) :
        v \in {"", "2", "2.0", "3", "4"},
        t \in AuthTypes,
        a \in {Nil} \cup
              { Ptr(With(AuthInfoOf(S), [AuthURL |-> u, Token |-> k])) :
                  u \in {"", "https://id/", "https://id/v2.0", "https://id/v3",
                         "https://id/v2.0/v3"},
                  k \in {"", "tok"},
                  S \in {{}, {"Username", "Password", "UserID", "UserDomainID",
                              "UserDomainName"}} } }

VersionEnvs ==
    { EnvOf(p, vals) :
        p \in Prefixes,
        vals \in { NoVars, [IDENTITY_API_VERSION |-> "2.0"], [IDENTITY_API_VERSION |-> "2"],
                   [IDENTITY_API_VERSION |-> "3"], [IDENTITY_API_VERSION |-> "4"] }
                 \cup { Restrict(EnvAll, {"AUTH_URL", "TOKEN", "USERNAME", "PASSWORD"}) } }

\* The inputs of the call are those of call.
Inputs(call) ==
    /\ files = call.files
    /\ environ = call.environ
    /\ opts = call.opts

VersionCalls ==
    \E c \in VersionClouds, env \in VersionEnvs, prefix \in {"", "MY_"} :
        Inputs(YAMLCall(c, env, prefix))

\* Environments with their opts.EnvPrefix.
ScopeEnvs ==
    { [env |-> EnvOf("OS_", NoVars), prefix |-> ""],
      [env |-> EnvOf("OS_", Restrict(EnvAll, {"DOMAIN_ID", "DEFAULT_DOMAIN"})), prefix |-> ""],
      [env |-> EnvOf("OS_", Restrict(EnvAll, {"PROJECT_NAME", "DOMAIN_NAME"})), prefix |-> "MY_"],
      [env |-> EnvOf("MY_", Restrict(EnvAll, {"PROJECT_NAME", "USER_DOMAIN_NAME"})), prefix |-> "MY_"],
      [env |-> EnvOf("OS_", Restrict(EnvAll, {"APPLICATION_CREDENTIAL_SECRET"})), prefix |-> ""],
      [env |-> EnvOf("MY_", Restrict(EnvAll, {"SYSTEM_SCOPE", "AUTH_URL"})), prefix |-> "MY_"] }

\* Calls that differ in the project, domain, application credential and
\* system scope settings.
ScopeCalls ==
    \E u \in {"", "https://id/v3"},
       P \in SUBSET {"ProjectID", "ProjectName"},
       A \in { {}, {"ApplicationCredentialID"}, {"ApplicationCredentialName"},
               {"ApplicationCredentialSecret"} },
       Y \in SUBSET {"SystemScope"},
       D \in SUBSET { "DomainID", "DomainName", "DefaultDomain", "UserDomainID",
                      "UserDomainName", "ProjectDomainID", "ProjectDomainName" },
       e \in ScopeEnvs :
        LET a == With(AuthInfoOf(P \cup A \cup Y \cup D), [AuthURL |-> u])
        IN  \/ Inputs(YAMLCall(With(EmptyCloud, [AuthInfo |-> Ptr(a)]), e.env, e.prefix))
            \/ Inputs(OptsCall(Ptr(a), e.env, e.prefix))

\* Calls that differ in which variables are set and which fields are.
FallbackEnvs ==
    { EnvOf(p, Restrict(EnvAll, S)) :
        p \in Prefixes,
        S \in { {}, DOMAIN EnvAll, {"TOKEN", "AUTH_TOKEN"}, {"TENANT_ID", "PROJECT_ID"},
                {"TENANT_NAME", "PROJECT_NAME"} }
              \cup { {v} : v \in DOMAIN EnvAll } }

FallbackAuthInfos ==
    { EmptyAuthInfo, FullAuthInfo,
      AuthInfoOf({"AuthURL", "Username", "ProjectID", "DomainID", "UserDomainName",
                  "ApplicationCredentialID", "AllowReauth"}),
      AuthInfoOf({"Token", "UserID", "Password", "ProjectName", "DomainName",
                  "DefaultDomain", "ProjectDomainID", "SystemScope"}) }

FallbackCalls ==
    \E a \in FallbackAuthInfos, env \in FallbackEnvs, prefix \in {"", "MY_"} :
        \/ \E v \in {"2.0", "3"} :
              Inputs(YAMLCall(With(EmptyCloud, [IdentityAPIVersion |-> v, AuthInfo |-> Ptr(a)]),
                              env, prefix))
        \/ Inputs(OptsCall(Ptr(a), env, prefix))

\* Calls that differ in where the cloud and its auth section come from.
SourceCalls ==
    \E f \in { File("missing", NoClouds), File("ok", "mycloud" :> EmptyCloud),
               File("ok", "mycloud" :> With(EmptyCloud, [AuthInfo |-> Ptr(AuthPrimary)])) },
       vals \in { NoVars, [CLOUD |-> "mycloud"],
                  [CLOUD |-> "mycloud", AUTH_URL |-> "https://env/v3"] },
       n \in {"", "mycloud", "ghost"},
       a \in {Nil, Ptr(AuthSecure), Ptr(AuthVendor)} :
        Inputs([ files |-> [ clouds |-> f, public |-> File("missing", NoClouds),
                             secure |-> File("missing", NoClouds) ],
                 environ |-> EnvOf("OS_", vals),
                 opts |-> [Cloud |-> n, EnvPrefix |-> "", RegionName |-> "", AuthInfo |-> a] ])

-----------------------------------------------------------------------------
(* The state machine of AuthOptions: one call on arbitrary inputs *)

InitAuth ==
    /\ VersionCalls \/ ScopeCalls \/ FallbackCalls \/ SourceCalls
    /\ pc = "start"
    /\ loaded = {}
    /\ cloudName = ""
    /\ selected = Nil
    /\ merged = Nil
    /\ cloud = Nil
    /\ err = NoErr
    /\ identityAPI = ""
    /\ authEnv = Nil
    /\ authOut = Nil
    /\ ao = Nil
    /\ given = opts.AuthInfo
    /\ NoLookupCall /\ NoClientCall /\ NoPurgeCall

AuthOptions ==
    /\ pc = "start"
    /\ \E r \in {AuthOptionsResult(opts, files, environ)} :
           /\ ao' = r.ao
           /\ err' = r.err
           /\ cloud' = r.cloud
           /\ identityAPI' = r.identityAPI
           /\ authEnv' = r.authEnv
           /\ authOut' = r.authOut
           /\ opts' = With(opts, [AuthInfo |-> r.optsAuthInfo])
           /\ cloudName' = r.cloudName
           /\ loaded' = r.loaded
           /\ selected' = r.selected
           /\ merged' = r.merged
    /\ pc' = "done"
    /\ UNCHANGED <<files, environ, given, namesVars, clientVars, purgeVars>>

NextAuth == AuthOptions

SpecAuth == InitAuth /\ [][NextAuth]_vars

-----------------------------------------------------------------------------
(* The state machine of a caller that calls AuthOptions again and again   *)
(* with the same *ClientOpts                                               *)

\* What the variables of the prefix OS_ are set to between two calls.
CallEnvs ==
    { EnvOf("OS_", vals) :
        vals \in { NoVars,
                   Restrict(EnvAll, {"AUTH_URL", "USERNAME"}),
                   Restrict(EnvAll, {"DOMAIN_ID", "PROJECT_NAME"}),
                   [IDENTITY_API_VERSION |-> "2.0"] } }

\* The AuthInfo values the caller passes in opts.AuthInfo.
CallAuthInfos ==
    { AuthInfoOf(S \cup {"AuthURL"}) :
        S \in SUBSET {"Username", "ProjectName", "DomainID", "DefaultDomain",
                      "UserDomainID"} }

InitCalls ==
    /\ \E env \in CallEnvs :
          \/ \E a \in CallAuthInfos \cup {EmptyAuthInfo} : Inputs(OptsCall(Ptr(a), env, ""))
          \/ Inputs(OptsCall(Nil, env, ""))
          \/ \E a \in CallAuthInfos :
                Inputs(YAMLCall(With(EmptyCloud, [AuthInfo |-> Ptr(a)]), env, ""))
    /\ pc = "start"
    /\ loaded = {}
    /\ cloudName = ""
    /\ selected = Nil
    /\ merged = Nil
    /\ cloud = Nil
    /\ err = NoErr
    /\ identityAPI = ""
    /\ authEnv = Nil
    /\ authOut = Nil
    /\ ao = Nil
    /\ given = opts.AuthInfo
    /\ NoLookupCall /\ NoClientCall /\ NoPurgeCall

\* The caller is about to call AuthOptions once more with the *ClientOpts
\* of the call that returned; the environment may have changed meanwhile.
CallAgain ==
    /\ pc = "done"
    /\ environ' \in CallEnvs
    /\ pc' = "start"
    /\ UNCHANGED <<files, opts, loaded, cloudName, selected, merged, cloud, err,
                   identityAPI, authEnv, authOut, ao, given, namesVars, clientVars,
                   purgeVars>>

NextCalls == AuthOptions \/ CallAgain

SpecCalls == InitCalls /\ [][NextCalls]_vars

-----------------------------------------------------------------------------
(* NewServiceClient *)

\* The cloud name of NewServiceClient: opts.Cloud, replaced by a non-empty
\* ${EnvPrefix}CLOUD.
ServiceCloudName(o, env) ==
    IF Getenv(env, EnvPrefixOf(o), "CLOUD") # "" THEN Getenv(env, EnvPrefixOf(o), "CLOUD")
    ELSE o.Cloud

\* cloud := new(Cloud), replaced by what GetCloudFromYAML returns when a
\* cloud name was determined.
ServiceCloud(o, fs, env) ==
    IF ServiceCloudName(o, env) # "" THEN GetCloudFromYAMLResult(o, fs, env) ELSE NoLookup

\* Faulty variant of EnvThenCloud: the variable wins over the cloud entry.
EnvThenCloudEnvWins(env, o, name, cloudValue) ==
    IF Getenv(env, EnvPrefixOf(o), name) # "" THEN Getenv(env, EnvPrefixOf(o), name)
    ELSE cloudValue

\* A setting read from the variable name and then from the cloud entry.
EnvThenCloud(env, o, name, cloudValue) ==
    IF cloudValue # "" THEN cloudValue ELSE Getenv(env, EnvPrefixOf(o), name)

\* A setting read from the variable, the cloud entry and then ClientOpts.
EnvCloudOpts(env, o, name, cloudValue, optsValue) ==
    IF optsValue # "" THEN optsValue ELSE EnvThenCloud(env, o, name, cloudValue)

\* insecurePtr: the negation of *cloud.Verify, nil when cloud.Verify is.
InsecurePtr(c) == IF c.Verify # Nil THEN Ptr(~c.Verify[1]) ELSE Nil

\* The constructors of the services that have one version.
Constructors ==
    ("baremetal" :> "NewBareMetalV1")
    @@ ("baremetal-introspection" :> "NewBareMetalIntrospectionV1")
    @@ ("compute" :> "NewComputeV2") @@ ("container" :> "NewContainerV1")
    @@ ("container-infra" :> "NewContainerInfraV1") @@ ("database" :> "NewDBV1")
    @@ ("dns" :> "NewDNSV2") @@ ("gnocchi" :> "NewGnocchiV1") @@ ("image" :> "NewImageV2")
    @@ ("key-manager" :> "NewKeyManagerV1") @@ ("load-balancer" :> "NewLoadBalancerV2")
    @@ ("messaging" :> "NewMessagingV2") @@ ("network" :> "NewNetworkV2")
    @@ ("object-store" :> "NewObjectStorageV1") @@ ("orchestration" :> "NewOrchestrationV1")
    @@ ("placement" :> "NewPlacementV1") @@ ("sharev2" :> "NewSharedFileSystemV2")
    @@ ("workflowv2" :> "NewWorkflowV2")

\* The service names and one that is no service.
Services == DOMAIN Constructors \cup {"identity", "volume", "bogus"}

Constructor(new, e) == [new |-> new, err |-> e]

\* case "identity"
IdentitySwitch(identityVersion) ==
    IF identityVersion \in {"v2", "2", "2.0"} THEN Constructor("NewIdentityV2", NoErr)
    ELSE IF identityVersion \in {"v3", "3"} THEN Constructor("NewIdentityV3", NoErr)
    ELSE Constructor("", "invalid identity API version")

\* case "volume"
VolumeSwitch(volumeVersion) ==
    IF volumeVersion \in {"v1", "1"} THEN Constructor("NewBlockStorageV1", NoErr)
    ELSE IF volumeVersion \in {"v2", "2"} THEN Constructor("NewBlockStorageV2", NoErr)
    ELSE IF volumeVersion \in {"v3", "3"} THEN Constructor("NewBlockStorageV3", NoErr)
    ELSE Constructor("", "invalid volume API version")

\* switch service
ServiceSwitch(svc, c) ==
    IF svc = "identity" THEN IdentitySwitch(defaultIfEmpty(c.IdentityAPIVersion, "3"))
    ELSE IF svc = "volume" THEN VolumeSwitch(defaultIfEmpty(c.VolumeAPIVersion, "3"))
    ELSE IF svc \in DOMAIN Constructors THEN Constructor(Constructors[svc], NoErr)
    ELSE Constructor("", "unable to create a service client")

\* A return with an error; oa is opts.AuthInfo then.
NoClient(e, oa) == [client |-> Nil, err |-> e, optsAuthInfo |-> oa]

\* From "eo := gophercloud.EndpointOpts{" on; the constructor fails when
\* the service has no endpoint.
Construct(sw, c, n, o, env, oa) ==
    IF sw.err # NoErr THEN NoClient(sw.err, oa)
    ELSE IF n = "endpoint" THEN NoClient("no endpoint found", oa)
    ELSE [ client |-> Ptr([ new |-> sw.new,
                            Region |-> EnvCloudOpts(env, o, "REGION_NAME", c.RegionName,
                                                    o.RegionName),
                            endpointType |-> EnvCloudOpts(env, o, "INTERFACE", c.EndpointType,
                                                          o.EndpointType),
                            caCertPath |-> EnvThenCloud(env, o, "CACERT", c.CACertFile),
                            clientCertPath |-> EnvThenCloud(env, o, "CERT", c.ClientCertFile),
                            clientKeyPath |-> EnvThenCloud(env, o, "KEY", c.ClientKeyFile),
                            insecure |-> InsecurePtr(c) ]),
           err |-> NoErr, optsAuthInfo |-> oa ]

\* From the error check of AuthOptions to the service switch: a is what
\* AuthOptions returned.
AfterAuthOptions(a, c, svc, n, o, env) ==
    IF a.err # NoErr THEN NoClient(a.err, a.optsAuthInfo)
    ELSE IF n = "newclient" THEN NoClient("NewClient failed", a.optsAuthInfo)
    ELSE IF n = "authenticate" THEN NoClient("Authenticate failed", a.optsAuthInfo)
    ELSE Construct(ServiceSwitch(svc, c), c, n, o, env, a.optsAuthInfo)

\* From the error check of GetCloudFromYAML to the call of AuthOptions.
AfterServiceCloud(g, svc, n, o, fs, env) ==
    IF g.err # NoErr THEN NoClient(g.err, o.AuthInfo)
    ELSE IF n = "tls" THEN NoClient("PrepareTLSConfig failed", o.AuthInfo)
    ELSE AfterAuthOptions(AuthOptionsResult(o, fs, env), g.cloud[1], svc, n, o, env)

\* The whole call; n says which of the calls into gophercloud fails, if any.
NewServiceClientResult(svc, n, o, fs, env) ==
    AfterServiceCloud(ServiceCloud(o, fs, env), svc, n, o, fs, env)

-----------------------------------------------------------------------------
(* The inputs of a call of NewServiceClient *)

NetOutcomes == {"ok", "tls", "newclient", "authenticate", "endpoint"}

\* A call with the entry c of clouds.yaml named through opts.Cloud or CLOUD
\* or not named at all.
ServiceCall(c, vals, o, svc, n) ==
    /\ files = [ clouds |-> File("ok", "mycloud" :> c),
                 public |-> File("missing", NoClouds),
                 secure |-> File("missing", NoClouds) ]
    /\ environ = EnvOf("OS_", vals)
    /\ opts = o
    /\ service = svc
    /\ net = n

ClientOptsOf(name, region, endpointType, authInfo) ==
    [ Cloud |-> name, EnvPrefix |-> "", RegionName |-> region, EndpointType |-> endpointType,
      AuthInfo |-> authInfo ]

\* Calls that differ in where the region, the endpoint type and the
\* certificate paths are set.
PrecedenceCalls ==
    \E region \in {"", "cloud-region"}, endpointType \in {"", "internal"},
       interface \in {"", "admin"}, ca \in {"", "/cloud/ca.pem"},
       cert \in { [c |-> "", k |-> ""], [c |-> "/cloud/cert.pem", k |-> ""],
                  [c |-> "/cloud/cert.pem", k |-> "/cloud/key.pem"] },
       E \in SUBSET {"REGION_NAME", "INTERFACE", "CACERT"},
       K \in {{}, {"CERT", "KEY"}},
       name \in { [o |-> "mycloud", e |-> {}], [o |-> "", e |-> {"CLOUD"}], [o |-> "", e |-> {}] },
       optsRegion \in {"", "opts-region"}, optsEndpointType \in {"", "public"},
       n \in NetOutcomes :
        ServiceCall(With(EmptyCloud, [ AuthInfo |-> Ptr(AuthPrimary), RegionName |-> region,
                                        EndpointType |-> endpointType, Interface |-> interface,
                                        CACertFile |-> ca, ClientCertFile |-> cert.c,
                                        ClientKeyFile |-> cert.k ]),
                    Restrict([ REGION_NAME |-> "env-region", INTERFACE |-> "env-interface",
                               CACERT |-> "/env/ca.pem", CERT |-> "/env/cert.pem",
                               KEY |-> "/env/key.pem", CLOUD |-> "mycloud",
                               AUTH_URL |-> "https://env/v3" ],
                             E \cup K \cup name.e \cup {"AUTH_URL"}),
                    ClientOptsOf(name.o, optsRegion, optsEndpointType, Nil), "compute", n)

\* Calls that differ in the service and in the API versions.
DispatchCalls ==
    \E iv \in {"", "2", "2.0", "v2", "3", "v3", "4"},
       vv \in {"", "1", "v2", "3", "v4"},
       ev \in {"", "2", "3"},
       verify \in {Nil, Ptr(TRUE), Ptr(FALSE)},
       svc \in Services,
       n \in {"ok", "endpoint"} :
        ServiceCall(With(EmptyCloud, [ AuthInfo |-> Ptr(AuthPrimary), IdentityAPIVersion |-> iv,
                                        VolumeAPIVersion |-> vv, Verify |-> verify ]),
                    [IDENTITY_API_VERSION |-> ev],
                    ClientOptsOf("mycloud", "", "", Nil), svc, n)

\* Calls without a cloud name, with opts.AuthInfo or not.
DirectCalls ==
    \E a \in {Nil, Ptr(AuthVendor), Ptr(EmptyAuthInfo)},
       E \in SUBSET {"REGION_NAME", "AUTH_URL", "IDENTITY_API_VERSION"},
       svc \in {"identity", "volume", "network"},
       n \in NetOutcomes :
        ServiceCall(With(EmptyCloud, [AuthInfo |-> Ptr(AuthPrimary), IdentityAPIVersion |-> "2"]),
                    Restrict([ REGION_NAME |-> "env-region", AUTH_URL |-> "https://env/v3",
                               IDENTITY_API_VERSION |-> "2" ], E),
                    ClientOptsOf("", "", "", a), svc, n)

-----------------------------------------------------------------------------
(* The state machine of NewServiceClient: one call on arbitrary inputs *)

InitClient ==
    /\ PrecedenceCalls \/ DispatchCalls \/ DirectCalls
    /\ client = Nil
    /\ pc = "start"
    /\ loaded = {}
    /\ cloudName = ""
    /\ selected = Nil
    /\ merged = Nil
    /\ cloud = Nil
    /\ err = NoErr
    /\ identityAPI = ""
    /\ authEnv = Nil
    /\ authOut = Nil
    /\ ao = Nil
    /\ given = opts.AuthInfo
    /\ NoLookupCall /\ NoPurgeCall

NewServiceClient ==
    /\ pc = "start"
    /\ \E r \in {NewServiceClientResult(service, net, opts, files, environ)} :
           /\ client' = r.client
           /\ err' = r.err
           /\ opts' = With(opts, [AuthInfo |-> r.optsAuthInfo])
    /\ pc' = "done"
    /\ UNCHANGED <<files, environ, loaded, cloudName, selected, merged, cloud, identityAPI,
                   authEnv, authOut, ao, given, service, net, namesVars, purgeVars>>

NextClient == NewServiceClient

SpecClient == InitClient /\ [][NextClient]_vars

-----------------------------------------------------------------------------
(* IDFromName and IDsFromName of the packages servers, volumes (block     *)
(* storage v3), snapshots (shared file systems) and ports                  *)

\* The most items the service holds.
MaxItems == 3

\* ResourceType of the errors, one per package.
ResourceTypes == {"server", "volume", "snapshot", "port"}

\* Names are sequences of characters.
Names == { <<"w", "e", "b">>, <<"w", ".", "b">>, <<"d", "b">> }

\* The IDs of the items the service holds, by position.
ItemIDs == <<"id-1", "id-2", "id-3", "id-4">>

\* An error value: nil, a failure of the list or extract step, or one of
\* gophercloud's ErrResourceNotFound and ErrMultipleResourcesFound.
ErrorValue(type, name, count, resourceType) ==
    [type |-> type, Name |-> name, Count |-> count, ResourceType |-> resourceType]

NilError == ErrorValue("nil", <<>>, 0, "")

\* Whether the regular expression ^pattern$ matches name, for a pattern
\* of literal characters and dots.
RegexpMatches(pattern, name) ==
    /\ Len(pattern) = Len(name)
    /\ \A i \in 1..Len(pattern) : pattern[i] = "." \/ pattern[i] = name[i]

\* Whether the service returns an item called itemName to the List request
\* of the package: servers send the name as the regular expression ^name$,
\* the others send the name.
ListFilter(resourceType, name, itemName) ==
    IF resourceType = "server" THEN RegexpMatches(name, itemName) ELSE itemName = name

\* The positions of seq whose item passes the filter, in order.
RECURSIVE Filtered(_, _, _, _)
Filtered(resourceType, name, items, i) ==
    IF i > Len(items) THEN <<>>
    ELSE (IF ListFilter(resourceType, name, items[i]) THEN <<ItemIDs[i]>> ELSE <<>>)
         \o Filtered(resourceType, name, items, i + 1)

IDsFromName(l) ==
    IF l.fault = "list" THEN [IDs |-> <<>>, err |-> ErrorValue("list failed", <<>>, 0, "")]
    ELSE IF l.fault = "extract"
    THEN [IDs |-> <<>>, err |-> ErrorValue("extract failed", <<>>, 0, "")]
    ELSE [IDs |-> Filtered(l.resourceType, l.name, l.items, 1), err |-> NilError]

\* Faulty variant of CountSwitch: of several items the first is returned.
CountSwitchFirstOfMany(l, r) ==
    IF r.err # NilError THEN [id |-> "", err |-> r.err]
    ELSE IF Len(r.IDs) = 0
    THEN [id |-> "", err |-> ErrorValue("ErrResourceNotFound", l.name, 0, l.resourceType)]
    ELSE [id |-> r.IDs[1], err |-> NilError]

\* IDFromName from the error check of IDsFromName on.
CountSwitch(l, r) ==
    IF r.err # NilError THEN [id |-> "", err |-> r.err]
    ELSE IF Len(r.IDs) = 0
    THEN [id |-> "", err |-> ErrorValue("ErrResourceNotFound", l.name, 0, l.resourceType)]
    ELSE IF Len(r.IDs) = 1
    THEN [id |-> r.IDs[1], err |-> NilError]
    ELSE [id |-> "", err |-> ErrorValue("ErrMultipleResourcesFound", l.name, Len(r.IDs),
                                        l.resourceType)]

IDFromNameResult(l) == CountSwitch(l, IDsFromName(l))

\* The state machine: one call of IDFromName of one of the packages.
InitNames ==
    /\ lookup \in [ resourceType : ResourceTypes, name : Names,
                    items : UNION {[1..n -> Names] : n \in 0..MaxItems},
                    fault : {"none", "list", "extract"} ]
    /\ found = Nil
    /\ pc = "start"
    /\ err = NoErr
    /\ files = Nil /\ environ = Nil /\ opts = Nil /\ given = Nil
    /\ loaded = {} /\ cloudName = "" /\ selected = Nil /\ merged = Nil /\ cloud = Nil
    /\ identityAPI = "" /\ authEnv = Nil /\ authOut = Nil /\ ao = Nil
    /\ NoClientCall /\ NoPurgeCall

IDFromName ==
    /\ pc = "start"
    /\ found' = IDFromNameResult(lookup)
    /\ pc' = "done"
    /\ UNCHANGED <<files, environ, opts, loaded, cloudName, selected, merged, cloud, err,
                   identityAPI, authEnv, authOut, ao, given, lookup, clientVars, purgeVars>>

NextNames == IDFromName

SpecNames == InitNames /\ [][NextNames]_vars

-----------------------------------------------------------------------------
(* The project purge of package helpers *)

\* The most resources of one kind the project holds.
MaxResources == 2

\* The kinds of resources, in the order ProjectPurgeAll clears them.
PurgeKinds ==
    << "servers", "snapshots", "volumes", "floatingips", "ports", "routers", "networks",
       "secgroups" >>

\* The error messages of the list, extract and delete steps of each kind
\* (without the names they end with).
FindMsg ==
    [ servers |-> "Error finding servers for project",
      snapshots |-> "Error finding snapshots for project",
      volumes |-> "Error finding volumes for project",
      floatingips |-> "Error finding floating IPs for project",
      ports |-> "Error finding ports for project",
      routers |-> "Error finding routers for project",
      networks |-> "Error finding networks for project",
      secgroups |-> "Error finding security groups for project" ]

ExtractMsg ==
    [ servers |-> "Error extracting servers for project",
      snapshots |-> "Error extracting snapshots for project",
      volumes |-> "Error extracting volumes for project",
      floatingips |-> "Error extracting floating IPs for project",
      ports |-> "Error extracting ports for project",
      routers |-> "Error extracting routers for project",
      networks |-> "Error extracting networks for project",
      secgroups |-> "Error extracting security groups for project" ]

DeleteMsg ==
    [ servers |-> "Error deleting server",
      snapshots |-> "Error deleting snaphost",
      volumes |-> "Error deleting volume",
      floatingips |-> "Error deleting floating IP",
      ports |-> "Error deleting port",
      routers |-> "Error deleting router",
      networks |-> "Error deleting network",
      secgroups |-> "Error deleting security group" ]

HAInterface == "network:ha_router_replicated_interface"

\* A request to a service: op is list, delete, removeInterface or update;
\* the target is <<0, 0, 0>> for the list of a kind, <<i, 0, 0>> for the
\* i-th resource of a kind and for the port forwardings of the i-th floating
\* IP, <<i, j, 0>> for the j-th port forwarding of the i-th floating IP and
\* <<r, k, j>> for the j-th subnet of the k-th network at the r-th router.
\* With op extract it stands for the extraction of the listed pages.
Request(op, kind, target) == [op |-> op, kind |-> kind, target |-> target]

NoTarget == <<0, 0, 0>>

\* No request issued and no error yet.
Fresh == [log |-> <<>>, err |-> NoErr]

\* The number of resources of a kind the project holds.
Count(p, kind) == IF kind \in p.empty THEN 0 ELSE p.n

\* What the service holds of a kind: the resources of the project and one
\* of another project.
Held(p, kind) ==
    [ i \in 1..(Count(p, kind) + 1) |->
        [ id |-> <<i, 0, 0>>,
          project |-> IF i <= Count(p, kind) THEN p.projectID ELSE "other" ] ]

\* What the service returns to a list request with TenantID: projectID.
RECURSIVE OfProject(_, _, _)
OfProject(held, projectID, i) ==
    IF i > Len(held) THEN <<>>
    ELSE (IF held[i].project = projectID THEN <<held[i].id>> ELSE <<>>)
         \o OfProject(held, projectID, i + 1)

Listed(p, kind) == OfProject(Held(p, kind), p.projectID, 1)

\* The port forwardings the service lists for a floating IP: the i-th
\* floating IP has i of them.
ListedPFs(p, fip) ==
    IF "portforwardings" \in p.empty THEN <<>>
    ELSE [j \in 1..fip[1] |-> <<fip[1], j, 0>>]

\* network.Subnets: the k-th network has k subnets.
Subnets(network) == [j \in 1..network[1] |-> <<network[1], j, 0>>]

DeviceOwner(p, port) == IF port[1] \in p.ha THEN HAInterface ELSE "compute:nova"

\* The request is issued; when it fails the error is msg.
Issue(st, p, req, msg) ==
    [ log |-> Append(st.log, [req |-> req, ok |-> req \notin p.faults]),
      err |-> IF req \in p.faults THEN msg ELSE NoErr ]

\* The Extract call on the listed pages.
Extract(st, p, kind, target, msg) ==
    IF st.err # NoErr THEN st
    ELSE IF Request("extract", kind, target) \in p.faults THEN [log |-> st.log, err |-> msg]
    ELSE st

\* List(...).AllPages and the Extract call with their error checks; nothing
\* is done when the caller has returned on an earlier error.
ListAll(st, p, kind, target, findMsg, extractMsg) ==
    IF st.err # NoErr THEN st
    ELSE Extract(Issue(st, p, Request("list", kind, target), findMsg), p, kind, target,
                 extractMsg)

\* for _, x := range all { err = Delete(x.ID); if err != nil { return } }
RECURSIVE DeleteEach(_, _, _, _, _, _)
DeleteEach(st, p, kind, ids, i, msg) ==
    IF st.err # NoErr \/ i > Len(ids) THEN st
    ELSE DeleteEach(Issue(st, p, Request("delete", kind, ids[i]), msg), p, kind, ids,
                    i + 1, msg)

\* The list, extract and delete steps of a kind without dependants.
ClearKind(st, p, kind) ==
    DeleteEach(ListAll(st, p, kind, NoTarget, FindMsg[kind], ExtractMsg[kind]), p, kind,
               Listed(p, kind), 1, DeleteMsg[kind])

ProjectPurgeComputeResult(st, p) == ClearKind(st, p, "servers")

clearBlockStorageSnaphosts(st, p) == ClearKind(st, p, "snapshots")

clearBlockStorageVolumes(st, p) == ClearKind(st, p, "volumes")

ProjectPurgeStorageResult(st, p) ==
    clearBlockStorageVolumes(clearBlockStorageSnaphosts(st, p), p)

clearPortforwarding(st, p, fip) ==
    DeleteEach(ListAll(st, p, "portforwardings", fip, "portforwarding list failed",
                       "portforwarding extract failed"),
               p, "portforwardings", ListedPFs(p, fip), 1,
               "Error deleting floating IP port forwarding")

\* Faulty variant of DeleteFloating: the floating IP is deleted whatever
\* clearPortforwarding returned.
DeleteFloatingAnyway(st, p, fip) ==
    Issue(st, p, Request("delete", "floatingips", fip), DeleteMsg.floatingips)

\* The error check of clearPortforwarding and floatingips.Delete.
DeleteFloating(st, p, fip) ==
    IF st.err # NoErr THEN st
    ELSE Issue(st, p, Request("delete", "floatingips", fip), DeleteMsg.floatingips)

RECURSIVE ClearFloatings(_, _, _, _)
ClearFloatings(st, p, ids, i) ==
    IF st.err # NoErr \/ i > Len(ids) THEN st
    ELSE ClearFloatings(DeleteFloating(clearPortforwarding(st, p, ids[i]), p, ids[i]),
                        p, ids, i + 1)

clearNetworkingFloatingIPs(st, p) ==
    ClearFloatings(ListAll(st, p, "floatingips", NoTarget, FindMsg.floatingips,
                           ExtractMsg.floatingips),
                   p, Listed(p, "floatingips"), 1)

\* Faulty variant of DeletePorts: no port is skipped.
DeletePortsAll(st, p, ids, i) == DeleteEach(st, p, "ports", ids, i, DeleteMsg.ports)

RECURSIVE DeletePorts(_, _, _, _)
DeletePorts(st, p, ids, i) ==
    IF st.err # NoErr \/ i > Len(ids) THEN st
    ELSE IF DeviceOwner(p, ids[i]) = HAInterface THEN DeletePorts(st, p, ids, i + 1)
    ELSE DeletePorts(Issue(st, p, Request("delete", "ports", ids[i]), DeleteMsg.ports),
                     p, ids, i + 1)

clearNetworkingPorts(st, p) ==
    DeletePorts(ListAll(st, p, "ports", NoTarget, FindMsg.ports, ExtractMsg.ports),
                p, Listed(p, "ports"), 1)

\* subnets = append(subnets, network.Subnets...) over the listed networks.
RECURSIVE AllSubnets(_, _)
AllSubnets(networks, k) ==
    IF k > Len(networks) THEN <<>>
    ELSE Subnets(networks[k]) \o AllSubnets(networks, k + 1)

\* getAllSubnets and the error check of its caller.
getAllSubnets(st, p) ==
    IF st.err # NoErr THEN st
    ELSE IF ListAll(st, p, "networks", NoTarget, FindMsg.networks,
                    ExtractMsg.networks).err # NoErr
    THEN [ log |-> ListAll(st, p, "networks", NoTarget, FindMsg.networks,
                           ExtractMsg.networks).log,
           err |-> "Error fetching subnets project" ]
    ELSE ListAll(st, p, "networks", NoTarget, FindMsg.networks, ExtractMsg.networks)

\* Faulty variant of clearAllRouterInterfaces: a failed RemoveInterface is
\* passed over.
RECURSIVE clearAllRouterInterfacesLenient(_, _, _, _, _)
clearAllRouterInterfacesLenient(st, p, router, subnets, i) ==
    IF i > Len(subnets) THEN [log |-> st.log, err |-> NoErr]
    ELSE clearAllRouterInterfacesLenient(
             Issue(st, p, Request("removeInterface", "routers",
                                  <<router[1], subnets[i][1], subnets[i][2]>>),
                   "remove interface failed"),
             p, router, subnets, i + 1)

RECURSIVE clearAllRouterInterfaces(_, _, _, _, _)
clearAllRouterInterfaces(st, p, router, subnets, i) ==
    IF st.err # NoErr \/ i > Len(subnets) THEN st
    ELSE clearAllRouterInterfaces(
             Issue(st, p, Request("removeInterface", "routers",
                                  <<router[1], subnets[i][1], subnets[i][2]>>),
                   "remove interface failed"),
             p, router, subnets, i + 1)

\* routers.Update with empty routes, after the error check of
\* clearAllRouterInterfaces.
UpdateRoutes(st, p, router) ==
    IF st.err # NoErr THEN st
    ELSE Issue(st, p, Request("update", "routers", router), DeleteMsg.routers)

DeleteRouter(st, p, router) ==
    IF st.err # NoErr THEN st
    ELSE Issue(st, p, Request("delete", "routers", router), DeleteMsg.routers)

RECURSIVE ClearRouters(_, _, _, _, _)
ClearRouters(st, p, ids, subnets, i) ==
    IF st.err # NoErr \/ i > Len(ids) THEN st
    ELSE ClearRouters(
             DeleteRouter(
                 UpdateRoutes(clearAllRouterInterfaces(st, p, ids[i], subnets, 1), p, ids[i]),
                 p, ids[i]),
             p, ids, subnets, i + 1)

clearNetworkingRouters(st, p) ==
    ClearRouters(getAllSubnets(ListAll(st, p, "routers", NoTarget, FindMsg.routers,
                                       ExtractMsg.routers), p),
                 p, Listed(p, "routers"), AllSubnets(Listed(p, "networks"), 1), 1)

clearNetworkingNetworks(st, p) == ClearKind(st, p, "networks")

clearNetworkingSecurityGroups(st, p) == ClearKind(st, p, "secgroups")

ProjectPurgeNetworkResult(st, p) ==
    clearNetworkingSecurityGroups(
        clearNetworkingNetworks(
            clearNetworkingRouters(
                clearNetworkingPorts(clearNetworkingFloatingIPs(st, p), p), p), p), p)

\* One service of ProjectPurgeAll: skipped when its options are nil or an
\* earlier service returned an error.
ComputeIfSet(st, p) ==
    IF st.err = NoErr /\ p.opts.compute THEN ProjectPurgeComputeResult(st, p) ELSE st

StorageIfSet(st, p) ==
    IF st.err = NoErr /\ p.opts.storage THEN ProjectPurgeStorageResult(st, p) ELSE st

NetworkIfSet(st, p) ==
    IF st.err = NoErr /\ p.opts.network THEN ProjectPurgeNetworkResult(st, p) ELSE st

\* Faulty variant of ProjectPurgeAllResult: the error of the compute purge
\* is dropped.
ProjectPurgeAllKeepsGoing(st, p) ==
    NetworkIfSet(StorageIfSet([log |-> ComputeIfSet(st, p).log, err |-> NoErr], p), p)

ProjectPurgeAllResult(st, p) == NetworkIfSet(StorageIfSet(ComputeIfSet(st, p), p), p)

-----------------------------------------------------------------------------
(* The inputs of a purge *)

\* Every request or extraction that can fail.
FaultRequests ==
    { Request(op, PurgeKinds[k], NoTarget) : op \in {"list", "extract"}, k \in 1..8 }
    \cup { Request(op, "portforwardings", <<i, 0, 0>>) :
             op \in {"list", "extract"}, i \in 1..MaxResources }
    \cup { Request("delete", PurgeKinds[k], <<i, 0, 0>>) : k \in 1..8, i \in 1..MaxResources }
    \cup { Request("delete", "portforwardings", <<i, j, 0>>) :
             i \in 1..MaxResources, j \in 1..MaxResources }
    \cup { Request("removeInterface", "routers", <<r, k, j>>) :
             r \in 1..MaxResources, k \in 1..MaxResources, j \in 1..MaxResources }
    \cup { Request("update", "routers", <<r, 0, 0>>) : r \in 1..MaxResources }

\* Requests that fail together.
PairFaults ==
    { Request("delete", "servers", <<1, 0, 0>>), Request("list", "volumes", NoTarget),
      Request("delete", "portforwardings", <<1, 1, 0>>),
      Request("removeInterface", "routers", <<1, 1, 1>>),
      Request("delete", "networks", <<1, 0, 0>>) }

Faults ==
    {{}} \cup { {f} : f \in FaultRequests } \cup { {f, g} : f, g \in PairFaults }

\* The ports that are replicated HA router interfaces, among n ports.
HAPorts(n) == { {} } \cup { {1} : i \in 1..n } \cup { 1..n }

-----------------------------------------------------------------------------
(* The state machine of the purge: one call of one of the four exported   *)
(* functions                                                               *)

InitPurge ==
    /\ \E n \in 0..MaxResources :
         \E ha \in HAPorts(n),
            empty \in {{}} \cup { {PurgeKinds[k]} : k \in 1..8 } \cup {{"portforwardings"}},
            faults \in Faults,
            o \in [compute : BOOLEAN, storage : BOOLEAN, network : BOOLEAN] :
           purge = [ projectID |-> "p", opts |-> o, n |-> n, empty |-> empty, ha |-> ha,
                     faults |-> faults ]
    /\ log = <<>>
    /\ called = ""
    /\ pc = "start"
    /\ err = NoErr
    /\ files = Nil /\ environ = Nil /\ opts = Nil /\ given = Nil
    /\ loaded = {} /\ cloudName = "" /\ selected = Nil /\ merged = Nil /\ cloud = Nil
    /\ identityAPI = "" /\ authEnv = Nil /\ authOut = Nil /\ ao = Nil
    /\ NoLookupCall /\ NoClientCall

\* The call returned r.
Returned(name, r) ==
    /\ log' = r.log
    /\ err' = r.err
    /\ called' = name
    /\ pc' = "done"
    /\ UNCHANGED <<files, environ, opts, loaded, cloudName, selected, merged, cloud,
                   identityAPI, authEnv, authOut, ao, given, namesVars, clientVars, purge>>

ProjectPurgeAll ==
    /\ pc = "start"
    /\ \E r \in {ProjectPurgeAllResult(Fresh, purge)} : Returned("ProjectPurgeAll", r)

\* The caller passes the compute options it has.
ProjectPurgeCompute ==
    /\ pc = "start"
    /\ purge.opts.compute
    /\ \E r \in {ProjectPurgeComputeResult(Fresh, purge)} : Returned("ProjectPurgeCompute", r)

ProjectPurgeStorage ==
    /\ pc = "start"
    /\ purge.opts.storage
    /\ \E r \in {ProjectPurgeStorageResult(Fresh, purge)} : Returned("ProjectPurgeStorage", r)

ProjectPurgeNetwork ==
    /\ pc = "start"
    /\ purge.opts.network
    /\ \E r \in {ProjectPurgeNetworkResult(Fresh, purge)} : Returned("ProjectPurgeNetwork", r)

NextPurge ==
    \/ ProjectPurgeAll
    \/ ProjectPurgeCompute
    \/ ProjectPurgeStorage
    \/ ProjectPurgeNetwork

SpecPurge == InitPurge /\ [][NextPurge]_vars

-----------------------------------------------------------------------------
(* Vocabulary of the properties: what the inputs of the call say,          *)
(* independently of how GetCloudFromYAML reads them.                       *)

Done == pc = "done"

Succeeded == Done /\ err = NoErr

\* The entries a file provides: none unless it exists and parses.
Entries(file) == IF file.st = "ok" THEN file.doc ELSE NoClouds

\* The name the caller asks for: opts.Cloud, else the CLOUD variable under
\* the prefix in force.
WantedName ==
    IF opts.Cloud # "" THEN opts.Cloud
    ELSE environ[IF opts.EnvPrefix = "" THEN "OS_" ELSE opts.EnvPrefix]["CLOUD"]

\* The profile a cloud entry names.
DeclaredProfile(c) == IF c.Profile # "" THEN c.Profile ELSE c.Cloud

\* The value of field f when hi takes precedence over lo.
Over(hi, lo, f) == IF IsZero(f, hi[f]) THEN lo[f] ELSE hi[f]

AuthOver(hi, lo) ==
    IF hi = Nil THEN lo
    ELSE IF lo = Nil THEN hi
    ELSE Ptr([f \in AuthFields |-> Over(hi[1], lo[1], f)])

\* Cloud hi laid over cloud lo: hi wins for every field it sets.
CloudOver(hi, lo) ==
    [f \in CloudFields |->
        IF f = "AuthInfo" THEN AuthOver(hi.AuthInfo, lo.AuthInfo) ELSE Over(hi, lo, f)]

\* Whether two clouds agree on every field that c sets (AuthInfo field by
\* field).
KeepsFieldsOf(c, result) ==
    /\ \A f \in CloudFields \ {"AuthInfo"} : ~IsZero(f, c[f]) => result[f] = c[f]
    /\ c.AuthInfo # Nil =>
         /\ result.AuthInfo # Nil
         /\ \A f \in AuthFields :
               ~IsZero(f, c.AuthInfo[1][f]) => result.AuthInfo[1][f] = c.AuthInfo[1][f]

\* The secure entry under the resolved name (the zero Cloud when none).
SecureEntry == Lookup(Entries(files.secure), cloudName)

\* The first region entry of a region list with the requested name, as a
\* sequence of length 0 or 1.
RequestedRegion(regions) ==
    IF opts.RegionName # "" /\ RegionMatches(regions, opts.RegionName) # {}
    THEN <<regions[Min(RegionMatches(regions, opts.RegionName))]>>
    ELSE <<>>

-----------------------------------------------------------------------------
(* C1 *)

\* C1: the cloud name is opts.Cloud when that is non-empty, else the
\* ${EnvPrefix}CLOUD variable (prefix OS_ by default); the entry of that
\* name in clouds.yaml is the one selected, and the sole-entry default is
\* not considered when a name is given: a name that clouds.yaml lacks makes
\* the call fail.
C1_CloudNamePrecedence ==
    Done /\ files.clouds.st = "ok" =>
        /\ cloudName = WantedName
        /\ WantedName # "" /\ WantedName \in DOMAIN files.clouds.doc
             => selected = Ptr(files.clouds.doc[WantedName])
        /\ WantedName # "" /\ WantedName \notin DOMAIN files.clouds.doc
             => selected = Nil /\ cloud = Nil /\ err # NoErr

\* opts.Cloud and the environment variable name different entries of a
\* two-entry clouds.yaml, and the opts.Cloud entry was selected.
C1_Witness ==
    /\ Done /\ err = NoErr
    /\ opts.Cloud = "mycloud" /\ opts.EnvPrefix = ""
    /\ environ["OS_"]["CLOUD"] = "other"
    /\ DOMAIN files.clouds.doc = {"mycloud", "other"}
    /\ files.clouds.doc["mycloud"] # files.clouds.doc["other"]
    /\ selected = Ptr(files.clouds.doc["mycloud"])

-----------------------------------------------------------------------------
(* C2 *)

SoleEntryCase ==
    /\ Done /\ files.clouds.st = "ok"
    /\ LenMap(files.clouds.doc) = 1
    /\ opts.Cloud = "" /\ WantedName = ""

\* Whether the profile the sole entry names cannot be resolved.
SoleProfileUnresolved ==
    LET pn == DeclaredProfile(SoleEntry(files.clouds.doc))
    IN  pn # "" /\ pn \notin DOMAIN Entries(files.public)

\* C2 as stated: with a single entry in clouds.yaml and no name given, the
\* call succeeds and returns that entry (all three files being well
\* formed).
C2_SoleEntryAlwaysSucceeds ==
    SoleEntryCase /\ files.public.st # "malformed" /\ files.secure.st # "malformed" =>
        /\ selected = Ptr(SoleEntry(files.clouds.doc))
        /\ err = NoErr /\ cloud # Nil

\* C2 amended: with a single entry in clouds.yaml and no name given, that
\* entry is selected whatever its name; the call returns a cloud unless the
\* entry names a profile that the catalog lacks or the catalog or
\* secure.yaml cannot be parsed, and then it fails.
C2_SoleEntrySelected ==
    SoleEntryCase =>
        /\ selected = Ptr(SoleEntry(files.clouds.doc))
        /\ (err = NoErr) <=>
             /\ ~SoleProfileUnresolved
             /\ DeclaredProfile(SoleEntry(files.clouds.doc)) # "" => files.public.st # "malformed"
             /\ files.secure.st # "malformed"
        /\ (err = NoErr) <=> (cloud # Nil)

\* The sole entry is named "other", no name was given, and it was returned.
C2_Witness ==
    /\ SoleEntryCase /\ err = NoErr
    /\ DOMAIN files.clouds.doc = {"other"}
    /\ selected = Ptr(files.clouds.doc["other"])
    /\ cloud # Nil

-----------------------------------------------------------------------------
(* C3 *)

\* C3: a named cloud that clouds.yaml lacks is still resolved when
\* secure.yaml has it, and the call fails when both lack it.
C3_NotFoundOnlyIfMissingEverywhere ==
    /\ Done /\ files.clouds.st = "ok" /\ files.secure.st = "ok"
    /\ WantedName # "" /\ WantedName \notin DOMAIN files.clouds.doc
    => IF WantedName \in DOMAIN files.secure.doc
       THEN err = NoErr /\ cloud # Nil
       ELSE err # NoErr /\ cloud = Nil

-----------------------------------------------------------------------------
(* C4 *)

\* The call succeeded on an entry with a profile, and neither a secure
\* entry nor a region override took part.
ProfileOnlyCase ==
    /\ Succeeded /\ selected # Nil
    /\ DeclaredProfile(selected[1]) # ""
    /\ SecureEntry = EmptyCloud
    /\ opts.RegionName = ""

\* C4: the merge of the selected cloud with its profile keeps every field
\* the selected cloud sets and takes the profile's value for the others.
C4_CloudWinsOverProfile ==
    ProfileOnlyCase =>
        merged[1] = DefaultVerify(
            CloudOver(selected[1],
                      Lookup(Entries(files.public), DeclaredProfile(selected[1]))))

-----------------------------------------------------------------------------
(* C5 *)

\* C5: when the selected cloud names a profile that the catalog lacks (a
\* missing catalog file has no entries), the call fails and returns no
\* cloud; when it names no profile, or no cloud was selected, the catalog
\* is not loaded.
C5_MissingProfileFails ==
    Done /\ files.clouds.st = "ok" =>
        /\ selected # Nil /\ DeclaredProfile(selected[1]) # ""
             /\ files.public.st # "malformed"
             /\ DeclaredProfile(selected[1]) \notin DOMAIN Entries(files.public)
             => cloud = Nil /\ err = "cloud does not exist in clouds-public.yaml"
        /\ selected # Nil /\ DeclaredProfile(selected[1]) # ""
             => "public" \in loaded
        /\ selected = Nil \/ DeclaredProfile(selected[1]) = ""
             => "public" \notin loaded

\* The selected cloud names a profile, the catalog file is missing, and the
\* call failed on the profile lookup.
C5_Witness ==
    /\ Done /\ selected # Nil
    /\ selected[1].Profile = "" /\ selected[1].Cloud = "vendorX"
    /\ files.public.st = "missing"
    /\ cloud = Nil /\ err = "cloud does not exist in clouds-public.yaml"

-----------------------------------------------------------------------------
(* C6 *)

\* C6: with a non-empty secure entry under the resolved name, every field
\* the secure entry sets has the secure entry's value in the result (before
\* the region override and the normalisation could change it).
C6_SecureWins ==
    /\ Succeeded /\ cloudName # ""
    /\ SecureEntry # EmptyCloud
    /\ opts.RegionName = ""
    => KeepsFieldsOf(SecureEntry, merged[1])

-----------------------------------------------------------------------------
(* C7 *)

\* C7: a call with secure.yaml missing returns what the same call returns
\* with a secure.yaml that has no entries, and never fails on loading
\* secure.yaml; a call with clouds.yaml missing fails.
C7_MissingSecureIsEmpty ==
    /\ Done /\ files.secure.st = "missing" =>
         /\ err # "unable to load secure.yaml"
         /\ LET r == GetCloudFromYAMLResult(
                        opts, [files EXCEPT !.secure = File("ok", NoClouds)], environ)
            IN  cloud = r.cloud /\ err = r.err
    /\ Done /\ files.clouds.st = "missing" => cloud = Nil /\ err # NoErr

\* secure.yaml is missing and the call returned a cloud.
C7_Witness ==
    /\ Done /\ files.secure.st = "missing"
    /\ err = NoErr /\ cloud # Nil /\ "secure" \in loaded

-----------------------------------------------------------------------------
(* C8 *)

\* C8: the values of the first region entry named opts.RegionName win over
\* the cloud for every field they set; without such an entry the result is
\* that of the same call with no region requested.
C8_RegionValuesWin ==
    Succeeded =>
        IF RequestedRegion(merged[1].Regions) # <<>>
        THEN KeepsFieldsOf(RequestedRegion(merged[1].Regions)[1].Values, merged[1])
        ELSE merged = GetCloudFromYAMLResult(
                          [opts EXCEPT !.RegionName = ""], files, environ).merged

-----------------------------------------------------------------------------
(* C9 *)

\* The first set (non-nil) pointer of a sequence of pointers, nil if none.
FirstSet(ptrs) ==
    IF \E i \in 1..Len(ptrs) : ptrs[i] # Nil
    THEN ptrs[Min({i \in 1..Len(ptrs) : ptrs[i] # Nil})]
    ELSE Nil

\* The profile entry the selected cloud names (the zero Cloud when none).
ProfileEntry ==
    IF selected # Nil /\ DeclaredProfile(selected[1]) # ""
    THEN Lookup(Entries(files.public), DeclaredProfile(selected[1]))
    ELSE EmptyCloud

\* The region list by the stated precedence: secure, primary, profile.
RegionsBySource ==
    IF SecureEntry.Regions # <<>> THEN SecureEntry.Regions
    ELSE IF selected[1].Regions # <<>> THEN selected[1].Regions
    ELSE ProfileEntry.Regions

\* C9: the returned cloud's Verify is set; it is the value of the
\* highest-precedence source that sets it (region override, secure entry,
\* primary entry, profile) and true when none does.
C9_VerifyByPrecedence ==
    Succeeded /\ selected # Nil =>
        /\ cloud[1].Verify # Nil
        /\ cloud[1].Verify =
             FirstSet(<< IF RequestedRegion(RegionsBySource) # <<>>
                         THEN RequestedRegion(RegionsBySource)[1].Values.Verify ELSE Nil,
                         SecureEntry.Verify,
                         selected[1].Verify,
                         ProfileEntry.Verify,
                         Ptr(TRUE) >>)

-----------------------------------------------------------------------------
(* C10 *)

\* C10: a returned cloud has an empty Interface; its EndpointType is the
\* merged EndpointType when that is non-empty and the merged Interface
\* otherwise; no other field is touched by the normalisation.  With no
\* profile, secure entry or region override the merged values are those of
\* the selected entry.
C10_EndpointTypeCanonical ==
    Succeeded =>
        /\ cloud # Nil /\ merged # Nil
        /\ cloud[1].Interface = ""
        /\ cloud[1].EndpointType =
             IF merged[1].EndpointType # "" THEN merged[1].EndpointType
             ELSE merged[1].Interface
        /\ \A f \in CloudFields \ {"Interface", "EndpointType"} : cloud[1][f] = merged[1][f]
        /\ selected # Nil /\ DeclaredProfile(selected[1]) = ""
             /\ SecureEntry = EmptyCloud /\ opts.RegionName = ""
             => /\ merged[1].EndpointType = selected[1].EndpointType
                /\ merged[1].Interface = selected[1].Interface

\* Interface and EndpointType were both set, to different values, and
\* EndpointType was kept.
C10_Witness ==
    /\ Succeeded
    /\ merged[1].Interface # "" /\ merged[1].EndpointType # ""
    /\ merged[1].Interface # merged[1].EndpointType
    /\ cloud[1].EndpointType = merged[1].EndpointType
    /\ cloud[1].Interface = ""

-----------------------------------------------------------------------------
(* C11 *)

\* Whether every field set in a or in b is set in result.
NoFieldDropped(a, b, result) ==
    /\ \A f \in CloudFields : ~IsZero(f, a[f]) \/ ~IsZero(f, b[f]) => ~IsZero(f, result[f])
    /\ a.AuthInfo # Nil /\ b.AuthInfo # Nil =>
         \A f \in AuthFields :
            ~IsZero(f, a.AuthInfo[1][f]) \/ ~IsZero(f, b.AuthInfo[1][f])
               => ~IsZero(f, result.AuthInfo[1][f])

\* The selected cloud after the call mergeClouds(cloud, publicCloud).
AfterProfile ==
    IF DeclaredProfile(selected[1]) # "" THEN CloudOver(ProfileEntry, selected[1])
    ELSE selected[1]

-----------------------------------------------------------------------------
(* C12 *)

\* C12: a call returns either a cloud and no error or no cloud and an
\* error; with no name given and neither clouds.yaml nor secure.yaml
\* holding exactly one entry it fails.
C12_CloudXorError ==
    Done =>
        /\ \/ cloud # Nil /\ err = NoErr
           \/ cloud = Nil /\ err # NoErr
        /\ WantedName = "" /\ LenMap(Entries(files.clouds)) # 1
             /\ LenMap(Entries(files.secure)) # 1
             => cloud = Nil /\ err # NoErr

\* No name was given, clouds.yaml has two entries and secure.yaml is
\* missing: the call failed.
C12_Witness ==
    /\ Done /\ WantedName = ""
    /\ files.clouds.st = "ok" /\ LenMap(files.clouds.doc) = 2
    /\ files.secure.st = "missing"
    /\ cloud = Nil /\ err = "Could not find cloud"

-----------------------------------------------------------------------------
(* Vocabulary of the properties of AuthOptions *)

\* AuthOptions got as far as determining the identity API version.
Reached == Done /\ cloud # Nil

\* *cloud.AuthInfo as configuration resolution left it, before v2auth or
\* v3auth read the environment.
AuthIn == cloud[1].AuthInfo[1]

\* The value of the variable name under the prefix in force.
EnvVar(name) == environ[IF opts.EnvPrefix = "" THEN "OS_" ELSE opts.EnvPrefix][name]

\* v2auth or v3auth ran for identity API version v.
Built(v) == Reached /\ identityAPI \in v /\ authEnv # Nil

HasAppCred(info) ==
    \E f \in {"ApplicationCredentialID", "ApplicationCredentialName",
              "ApplicationCredentialSecret"} : info[f] # ""

HasProject(info) == info.ProjectID # "" \/ info.ProjectName # ""

\* The user or project domain name after domain defaulting.
DefaultedName(info, nameField) ==
    IF info[nameField] # "" THEN info[nameField] ELSE info.DomainName

\* The user or project domain id after domain defaulting.
DefaultedID(info, idField, nameField) ==
    IF info[idField] # "" THEN info[idField]
    ELSE IF info.DomainID # "" THEN info.DomainID
    ELSE IF info.DefaultDomain # "" /\ DefaultedName(info, nameField) = "" THEN info.DefaultDomain
    ELSE ""

-----------------------------------------------------------------------------
(* C13 *)

\* The versions the stated precedence allows: explicit field, variable,
\* auth URL, auth type, "3".
ClaimedVersions ==
    LET fromURL == (IF AuthIn.AuthURL \in {"https://id/v2.0", "https://id/v2.0/v3"}
                    THEN {"2.0"} ELSE {})
                   \cup (IF AuthIn.AuthURL \in {"https://id/v3", "https://id/v2.0/v3",
                                                "https://primary/v3", "https://vendor/v3"}
                         THEN {"3"} ELSE {})
    IN  IF cloud[1].IdentityAPIVersion # "" THEN {cloud[1].IdentityAPIVersion}
        ELSE IF EnvVar("IDENTITY_API_VERSION") # "" THEN {EnvVar("IDENTITY_API_VERSION")}
        ELSE IF fromURL # {} THEN fromURL
        ELSE IF cloud[1].AuthType \in {"v2password", "v2token"} THEN {"2.0"}
        ELSE IF cloud[1].AuthType \in {"v3password", "v3token", "v3applicationcredential"}
        THEN {"3"}
        ELSE {"3"}

\* C13: the identity API version is the first available of the cloud's
\* identity_api_version, the IDENTITY_API_VERSION variable, the version the
\* auth URL names, the version the auth type names, and "3".
C13_VersionPrecedence == Reached => identityAPI \in ClaimedVersions

-----------------------------------------------------------------------------
(* C14 *)

\* The non-empty values of the variables of a field.
ValuesOf(names) == {EnvVar(names[i]) : i \in 1..Len(names)} \ {""}

\* C14: in v2auth and v3auth a field that configuration resolution set keeps
\* its value whatever the environment holds, and an empty field takes the
\* value of a variable of its own under the prefix in force when one is
\* non-empty, and stays empty otherwise; the endpoint and the token of the
\* options are the fields so obtained.
C14_EnvOnlyFillsEmpty ==
    Built({"2", "2.0", "3"}) =>
        LET names == IF identityAPI = "3" THEN V3EnvNames ELSE V2EnvNames
        IN  /\ \A f \in DOMAIN names :
                  /\ AuthIn[f] # "" => authEnv[1][f] = AuthIn[f]
                  /\ AuthIn[f] = "" /\ ValuesOf(names[f]) # {}
                       => authEnv[1][f] \in ValuesOf(names[f])
                  /\ AuthIn[f] = "" /\ ValuesOf(names[f]) = {} => authEnv[1][f] = ""
            /\ ao # Nil => /\ ao[1].IdentityEndpoint = authEnv[1].AuthURL
                           /\ ao[1].TokenID = authEnv[1].Token

\* Under the prefix MY_, with every variable set: the user name of the cloud
\* entry was kept and the empty password was read from MY_PASSWORD.
C14_Witness ==
    /\ Built({"3"}) /\ opts.EnvPrefix = "MY_"
    /\ AuthIn.Username = "alice" /\ EnvVar("USERNAME") = "env-user"
    /\ authEnv[1].Username = "alice"
    /\ AuthIn.Password = "" /\ environ["OS_"]["PASSWORD"] = ""
    /\ authEnv[1].Password = "env-pw"

-----------------------------------------------------------------------------
(* C15 *)

\* C15: when the auth type contains "token" or the resulting token is
\* non-empty, the returned options have no Username, Password, UserID,
\* DomainID and DomainName, for every identity API version.
C15_TokenClearsCredentials ==
    Done /\ ao # Nil
         /\ (cloud[1].AuthType \in {"token", "v2token", "v3token"} \/ ao[1].TokenID # "")
      => /\ ao[1].Username = "" /\ ao[1].Password = "" /\ ao[1].UserID = ""
         /\ ao[1].DomainID = "" /\ ao[1].DomainName = ""

-----------------------------------------------------------------------------
(* C16 *)

\* C16: with an application credential field set after the environment
\* fallback, the options v3auth builds have a scope with no field set, and
\* the call succeeds whenever the auth URL is non-empty, project or not.
C16_AppCredNoScope ==
    Built({"3"}) /\ HasAppCred(authEnv[1]) =>
        /\ ao # Nil => ao[1].Scope = Ptr(EmptyScope)
        /\ authEnv[1].AuthURL # "" => ao # Nil /\ err = NoErr

\* The application credential secret came from the environment alone, no
\* project is set, a domain and a system scope are, and the call succeeded.
C16_Witness ==
    /\ Built({"3"}) /\ ~HasAppCred(AuthIn) /\ HasAppCred(authEnv[1])
    /\ ~HasProject(authEnv[1])
    /\ authEnv[1].DomainID # "" /\ authEnv[1].SystemScope # ""
    /\ ao # Nil /\ err = NoErr
    /\ ao[1].Scope = Ptr(EmptyScope)
    /\ ao[1].ApplicationCredentialSecret = "env-ac-secret"

-----------------------------------------------------------------------------
(* C17 *)

\* C17: for v3 auth without application credential and without project,
\* the scope has no project; its domain is the DomainID when that is set
\* and otherwise the DomainName, never both; it is a system scope exactly
\* when SystemScope is set.
C17_DomainOrSystemScope ==
    Built({"3"}) /\ ~HasAppCred(authEnv[1]) /\ ~HasProject(authEnv[1]) /\ ao # Nil =>
        LET scope == ao[1].Scope[1]
        IN  /\ scope.ProjectID = "" /\ scope.ProjectName = ""
            /\ scope.DomainID = authEnv[1].DomainID
            /\ scope.DomainName = IF authEnv[1].DomainID # "" THEN ""
                                  ELSE authEnv[1].DomainName
            /\ ~(scope.DomainID # "" /\ scope.DomainName # "")
            /\ scope.System <=> authEnv[1].SystemScope # ""

\* DomainID and DomainName are both set and no SystemScope: the scope has
\* the domain id alone.
C17_Witness ==
    /\ Built({"3"}) /\ ~HasAppCred(authEnv[1]) /\ ~HasProject(authEnv[1]) /\ ao # Nil
    /\ authEnv[1].DomainID = "d-id" /\ authEnv[1].DomainName = "d-name"
    /\ authEnv[1].SystemScope = ""
    /\ ao[1].Scope = Ptr(With(EmptyScope, [DomainID |-> "d-id"]))

-----------------------------------------------------------------------------
(* C18 *)

\* C18: for v3 auth without application credential and with a project, the
\* scope is the ProjectID alone when that is set, and otherwise the
\* ProjectName with the project's domain id and name as domain defaulting
\* leaves them; it is never a system scope.
C18_ProjectScope ==
    Built({"3"}) /\ ~HasAppCred(authEnv[1]) /\ HasProject(authEnv[1]) /\ ao # Nil =>
        LET scope == ao[1].Scope[1]
            info == authEnv[1]
        IN  /\ ~scope.System
            /\ info.ProjectID # "" =>
                 scope = With(EmptyScope, [ProjectID |-> info.ProjectID])
            /\ info.ProjectID = "" =>
                 scope = With(EmptyScope,
                              [ ProjectName |-> info.ProjectName,
                                DomainID |-> DefaultedID(info, "ProjectDomainID",
                                                         "ProjectDomainName"),
                                DomainName |-> DefaultedName(info, "ProjectDomainName") ])

\* A project name without project id or project domain, a bare DomainID
\* and a SystemScope: the scope has the project name and the bare domain
\* id and is not a system scope.
C18_Witness ==
    /\ Built({"3"}) /\ ~HasAppCred(authEnv[1]) /\ ao # Nil
    /\ authEnv[1].ProjectID = "" /\ authEnv[1].ProjectName = "p-name"
    /\ authEnv[1].ProjectDomainID = "" /\ authEnv[1].ProjectDomainName = ""
    /\ authEnv[1].DomainID = "d-id" /\ authEnv[1].SystemScope = "all"
    /\ ao[1].Scope = Ptr(With(EmptyScope, [ProjectName |-> "p-name", DomainID |-> "d-id"]))

-----------------------------------------------------------------------------
(* C19 *)

\* C19: where v3auth applies domain defaulting (application credential or
\* project), a user or project domain id or name that is set is kept, an
\* empty one takes the bare DomainID or DomainName, DefaultDomain becomes the
\* user (project) domain id only when the user (project) domain id and name
\* are both still empty, the bare DomainID and DomainName are empty
\* afterwards and no other field changes.
C19_DomainDefaulting ==
    Built({"3"}) /\ (HasAppCred(authEnv[1]) \/ HasProject(authEnv[1])) =>
        LET info == authEnv[1]
        IN  authOut[1] =
              With(info,
                   [ UserDomainID |-> DefaultedID(info, "UserDomainID", "UserDomainName"),
                     UserDomainName |-> DefaultedName(info, "UserDomainName"),
                     ProjectDomainID |-> DefaultedID(info, "ProjectDomainID",
                                                     "ProjectDomainName"),
                     ProjectDomainName |-> DefaultedName(info, "ProjectDomainName"),
                     DomainID |-> "", DomainName |-> "" ])

\* A bare DomainName, a user domain name of its own, no project domain and
\* a DefaultDomain: the project domain name took the bare name, the user
\* domain name was kept, and DefaultDomain was copied to neither id.
C19_Witness ==
    /\ Built({"3"}) /\ HasProject(authEnv[1])
    /\ authEnv[1].DomainID = "" /\ authEnv[1].DomainName = "d-name"
    /\ authEnv[1].UserDomainName = "ud-name" /\ authEnv[1].UserDomainID = ""
    /\ authEnv[1].ProjectDomainName = "" /\ authEnv[1].ProjectDomainID = ""
    /\ authEnv[1].DefaultDomain = "default"
    /\ authOut[1].UserDomainName = "ud-name" /\ authOut[1].ProjectDomainName = "d-name"
    /\ authOut[1].UserDomainID = "" /\ authOut[1].ProjectDomainID = ""
    /\ authOut[1].DomainName = ""

-----------------------------------------------------------------------------
(* C20 *)

\* C20: for every identity API version, AuthOptions returns no options and
\* a missing-input error when the auth URL is empty after merging and
\* environment fallback; returned options have an IdentityEndpoint.
C20_EmptyEndpointFails ==
    /\ Done /\ ao # Nil => ao[1].IdentityEndpoint # ""
    /\ Built({"2", "2.0", "3"}) /\ authEnv[1].AuthURL = ""
         => ao = Nil /\ err = "Missing input for argument [auth_url]"

-----------------------------------------------------------------------------
(* C21 *)

\* What a first call of AuthOptions returns with the files and the
\* environment as they are now and opts.AuthInfo as the caller built it.
FirstCall == AuthOptionsResult(With(opts, [AuthInfo |-> given]), files, environ)

\* C21: a call of AuthOptions, after any number of earlier calls with the
\* same ClientOpts, returns what a first call would return with the same
\* documents and environment, and it leaves the fields of the caller's
\* opts.AuthInfo as they were.
C21_CallsIndependent ==
    Done =>
        /\ opts.AuthInfo = given
        /\ ao = FirstCall.ao
        /\ err = FirstCall.err

-----------------------------------------------------------------------------
(* C22 *)

\* The IDs of the items the service holds under the name that was asked
\* for; a server name is asked for as a regular expression.
Yielded ==
    { ItemIDs[i] : i \in { j \in 1..Len(lookup.items) :
          IF lookup.resourceType = "server"
          THEN RegexpMatches(lookup.name, lookup.items[j])
          ELSE lookup.items[j] = lookup.name } }

\* C22: IDFromName returns an ID and a nil error exactly when the lookup
\* yields one item, and then the ID of that item; with no item it returns
\* an empty ID and ErrResourceNotFound with the name; with n > 1 items an
\* empty ID and ErrMultipleResourcesFound with Count n; a failure of the
\* list or extract step is returned as it is with an empty ID.
C22_IDFromNameByCount ==
    Done =>
        /\ (found.err = NilError) <=> (lookup.fault = "none" /\ Cardinality(Yielded) = 1)
        /\ found.err = NilError => found.id \in Yielded
        /\ found.err # NilError => found.id = ""
        /\ lookup.fault = "none" /\ Cardinality(Yielded) = 0 =>
             found.err = ErrorValue("ErrResourceNotFound", lookup.name, 0, lookup.resourceType)
        /\ lookup.fault = "none" /\ Cardinality(Yielded) > 1 =>
             found.err = ErrorValue("ErrMultipleResourcesFound", lookup.name,
                                    Cardinality(Yielded), lookup.resourceType)
        /\ lookup.fault = "list" => found.err = ErrorValue("list failed", <<>>, 0, "")
        /\ lookup.fault = "extract" => found.err = ErrorValue("extract failed", <<>>, 0, "")

\* Two servers match the name w.b and the call failed with Count 2.
C22_Witness ==
    /\ Done
    /\ lookup.resourceType = "server" /\ lookup.name = <<"w", ".", "b">>
    /\ lookup.fault = "none"
    /\ Cardinality(Yielded) = 2
    /\ found.id = "" /\ found.err.type = "ErrMultipleResourcesFound" /\ found.err.Count = 2

-----------------------------------------------------------------------------
(* Vocabulary of the properties of the purge *)

\* The named function was called and returned.
Called(name) == Done /\ called = name

\* The place of a kind in the order of ProjectPurgeAll; port forwardings
\* go with the floating IPs.
Rank(kind) ==
    IF kind = "portforwardings" THEN 4
    ELSE CHOOSE k \in 1..8 : PurgeKinds[k] = kind

\* Whether the purge options of the service of a kind are given.
OptsGiven(kind) ==
    IF Rank(kind) = 1 THEN purge.opts.compute
    ELSE IF Rank(kind) \in {2, 3} THEN purge.opts.storage
    ELSE purge.opts.network

\* The requests of the log, by position.
Entries23 == 1..Len(log)

\* The extraction of the pages of the last request failed.
LastExtractFailed ==
    /\ log # <<>>
    /\ log[Len(log)].req.op = "list"
    /\ Request("extract", log[Len(log)].req.kind, log[Len(log)].req.target) \in purge.faults

\* The resources of a kind that belong to the project, and those the
\* service holds for another project.
OfThisProject(kind) == { <<i, 0, 0>> : i \in 1..(IF kind \in purge.empty THEN 0 ELSE purge.n) }

\* The request was issued and succeeded.
Succeeded23(req) == \E i \in Entries23 : log[i].req = req /\ log[i].ok

\* The number of times the request was issued.
Times(req) == Cardinality({ i \in Entries23 : log[i].req = req })

-----------------------------------------------------------------------------
(* C23 *)

\* C23: ProjectPurgeAll issues its requests kind by kind in the order
\* servers, snapshots, volumes, floating IPs, ports, routers, networks,
\* security groups (the routers step reads the list of networks before it
\* touches a router); it issues no request for a kind of a service whose
\* options are nil; a failed request or extraction is the last thing it
\* does and it returns an error then and only then; without an error every
\* kind of a service with options is listed; with the three options nil
\* it issues no request and returns nil.
C23_FixedOrderStopAtError ==
    Called("ProjectPurgeAll") =>
        /\ \A i, j \in Entries23 :
              i < j =>
                 \/ Rank(log[i].req.kind) <= Rank(log[j].req.kind)
                 \/ /\ log[i].req = Request("list", "networks", NoTarget)
                    /\ log[j].req.kind = "routers"
        /\ \A i \in Entries23 : OptsGiven(log[i].req.kind)
        /\ \A i \in Entries23 : ~log[i].ok => i = Len(log)
        /\ err # NoErr <=> log # <<>> /\ (~log[Len(log)].ok \/ LastExtractFailed)
        /\ err = NoErr =>
              \A k \in 1..8 :
                 OptsGiven(PurgeKinds[k]) => Succeeded23(Request("list", PurgeKinds[k], NoTarget))
        /\ ~purge.opts.compute /\ ~purge.opts.storage /\ ~purge.opts.network =>
              log = <<>> /\ err = NoErr

\* The storage options are nil and the delete of the first port failed:
\* servers and floating IPs were deleted before, no request went to the
\* block storage service and none for routers, networks or security groups.
C23_Witness ==
    /\ Called("ProjectPurgeAll")
    /\ purge.opts.compute /\ ~purge.opts.storage /\ purge.opts.network
    /\ purge.n = 2 /\ purge.empty = {}
    /\ err = "Error deleting port"
    /\ Succeeded23(Request("delete", "servers", <<2, 0, 0>>))
    /\ Succeeded23(Request("delete", "floatingips", <<2, 0, 0>>))
    /\ log[Len(log)].req = Request("delete", "ports", <<1, 0, 0>>)
    /\ \A i \in Entries23 : Rank(log[i].req.kind) \in {1, 4, 5}

-----------------------------------------------------------------------------
(* Vocabulary of the properties of NewServiceClient *)

\* The entry of clouds.yaml the call names, the empty cloud when it names
\* none.
ClientEntry ==
    IF opts.Cloud # "" \/ EnvVar("CLOUD") # "" THEN files.clouds.doc["mycloud"] ELSE EmptyCloud

\* The first non-empty string of a sequence, "" when there is none.
FirstNonEmpty(values) ==
    IF \E i \in 1..Len(values) : values[i] # ""
    THEN values[CHOOSE i \in 1..Len(values) :
                   values[i] # "" /\ \A j \in 1..(i - 1) : values[j] = ""]
    ELSE ""

\* NewServiceClient returned a client.
GotClient == Done /\ client # Nil

-----------------------------------------------------------------------------
(* C24 *)

\* C24: the client NewServiceClient returns has the region of
\* opts.RegionName, else of the cloud entry, else of REGION_NAME; the
\* endpoint type of opts.EndpointType, else of the cloud entry (its
\* endpoint_type, else its interface), else of INTERFACE; and the CA
\* certificate, client certificate and client key paths of the cloud entry,
\* else of CACERT, CERT and KEY.
C24_OptsThenCloudThenEnv ==
    GotClient =>
        /\ client[1].Region =
             FirstNonEmpty(<<opts.RegionName, ClientEntry.RegionName, EnvVar("REGION_NAME")>>)
        /\ client[1].endpointType =
             FirstNonEmpty(<<opts.EndpointType, ClientEntry.EndpointType, ClientEntry.Interface,
                             EnvVar("INTERFACE")>>)
        /\ client[1].caCertPath = FirstNonEmpty(<<ClientEntry.CACertFile, EnvVar("CACERT")>>)
        /\ client[1].clientCertPath =
             FirstNonEmpty(<<ClientEntry.ClientCertFile, EnvVar("CERT")>>)
        /\ client[1].clientKeyPath = FirstNonEmpty(<<ClientEntry.ClientKeyFile, EnvVar("KEY")>>)

\* The entry sets a region, an interface and a client certificate; the
\* environment sets all five variables; opts sets neither region nor
\* endpoint type: region, endpoint type and certificate are the entry's, CA
\* certificate and key the environment's.
C24_Witness ==
    /\ GotClient
    /\ opts.RegionName = "" /\ opts.EndpointType = ""
    /\ ClientEntry.RegionName = "cloud-region" /\ EnvVar("REGION_NAME") = "env-region"
    /\ ClientEntry.EndpointType = "" /\ ClientEntry.Interface = "admin"
    /\ EnvVar("INTERFACE") = "env-interface"
    /\ ClientEntry.CACertFile = "" /\ ClientEntry.ClientCertFile = "/cloud/cert.pem"
    /\ ClientEntry.ClientKeyFile = ""
    /\ client[1].Region = "cloud-region"
    /\ client[1].endpointType = "admin"
    /\ client[1].caCertPath = "/env/ca.pem"
    /\ client[1].clientCertPath = "/cloud/cert.pem"
    /\ client[1].clientKeyPath = "/env/key.pem"

-----------------------------------------------------------------------------
(* C25 *)

\* C25: for the service identity and a named cloud entry, with every call
\* into gophercloud succeeding, NewServiceClient returns an identity v2
\* client when the entry's identity API version is v2, 2 or 2.0, an
\* identity v3 client when it is v3, 3 or unset, and the error "invalid
\* identity API version" for any other string.
C25_IdentityDispatch ==
    Done /\ service = "identity" /\ net = "ok" /\ ClientEntry # EmptyCloud =>
        IF ClientEntry.IdentityAPIVersion \in {"v2", "2", "2.0"}
        THEN client # Nil /\ client[1].new = "NewIdentityV2"
        ELSE IF ClientEntry.IdentityAPIVersion \in {"v3", "3", ""}
        THEN client # Nil /\ client[1].new = "NewIdentityV3"
        ELSE client = Nil /\ err = "invalid identity API version"

-----------------------------------------------------------------------------
(* C26 *)

\* The entry of secure.yaml under the name of the sole entry of clouds.yaml
\* (the zero Cloud when there is none).
SecureOfSoleEntry ==
    Lookup(Entries(files.secure), CHOOSE n \in DOMAIN files.clouds.doc : TRUE)

\* C26: when the cloud is the sole entry of clouds.yaml, taken because no
\* name was given, and secure.yaml has a non-empty entry of the same name,
\* every field the secure entry sets has the secure entry's value in the
\* result (before the region override and the normalisation could change
\* it).
C26_SecureOverlayOnSoleEntry ==
    /\ SoleEntryCase /\ Succeeded
    /\ SecureOfSoleEntry # EmptyCloud
    /\ opts.RegionName = ""
    => KeepsFieldsOf(SecureOfSoleEntry, merged[1])

-----------------------------------------------------------------------------
(* C27 *)

\* The three files missing.
NoFiles ==
    [ clouds |-> File("missing", NoClouds), public |-> File("missing", NoClouds),
      secure |-> File("missing", NoClouds) ]

\* The auth section AuthOptions works on when the resolved cloud has none:
\* opts.AuthInfo, else an empty AuthInfo.
OptsAuthInfo == IF given # Nil THEN given ELSE Ptr(EmptyAuthInfo)

\* C27: with opts.Cloud empty and CLOUD unset AuthOptions loads no YAML
\* document: its cloud is empty but for opts.AuthInfo (an empty AuthInfo
\* when that is nil) and it returns what it returns with every file
\* missing, so a sole entry of clouds.yaml is not used.  With a cloud name,
\* the auth section is that of the resolved cloud when it has one and
\* opts.AuthInfo only when it has none.
C27_NoNameNoYAML ==
    /\ Done /\ WantedName = "" =>
          /\ loaded = {}
          /\ Reached /\ cloud[1] = With(EmptyCloud, [AuthInfo |-> OptsAuthInfo])
          /\ ao = AuthOptionsResult(With(opts, [AuthInfo |-> given]), NoFiles, environ).ao
          /\ err = AuthOptionsResult(With(opts, [AuthInfo |-> given]), NoFiles, environ).err
    /\ Reached /\ WantedName # "" =>
          cloud[1].AuthInfo =
             IF Lookup(Entries(files.clouds), WantedName).AuthInfo # Nil
             THEN Lookup(Entries(files.clouds), WantedName).AuthInfo
             ELSE OptsAuthInfo

\* No name is given, clouds.yaml has a single entry with an auth section
\* and opts.AuthInfo is set: nothing was loaded and the identity endpoint
\* is that of opts.AuthInfo.
C27_Witness ==
    /\ Succeeded /\ WantedName = ""
    /\ LenMap(Entries(files.clouds)) = 1
    /\ SoleEntry(files.clouds.doc).AuthInfo = Ptr(AuthPrimary)
    /\ given = Ptr(AuthVendor)
    /\ loaded = {}
    /\ ao[1].IdentityEndpoint = "https://vendor/v3"

-----------------------------------------------------------------------------
(* C28 *)

\* The subnets of the networks of the project.
SubnetsOfProject ==
    UNION { { <<t[1], j, 0>> : j \in 1..t[1] } : t \in OfThisProject("networks") }

\* The request was issued before position i and succeeded.
SucceededBefore(req, i) == \E h \in 1..(i - 1) : log[h].req = req /\ log[h].ok

\* The positions of the log with a request on a router other than the list.
RouterSteps ==
    { i \in Entries23 : log[i].req.kind = "routers" /\ log[i].req.op # "list" }

\* C28: the delete request of a router is issued only after RemoveInterface
\* succeeded on that router for every subnet of every network of the
\* project and after the update that clears its routes succeeded; when one
\* of the requests on a router fails, that router is not deleted, no router
\* after it is touched, nothing else is requested and the purge returns an
\* error.
C28_RouterDeletedLast ==
    Done =>
        \A i \in RouterSteps :
           /\ log[i].req.op = "delete" =>
                 /\ \A sn \in SubnetsOfProject :
                       SucceededBefore(Request("removeInterface", "routers",
                                               <<log[i].req.target[1], sn[1], sn[2]>>), i)
                 /\ SucceededBefore(Request("update", "routers", log[i].req.target), i)
           /\ ~log[i].ok =>
                 /\ err # NoErr
                 /\ i = Len(log)
                 /\ ~Succeeded23(Request("delete", "routers", <<log[i].req.target[1], 0, 0>>))
                 /\ \A h \in RouterSteps : log[h].req.target[1] <= log[i].req.target[1]

\* Two routers and three subnets: the first router was deleted after its
\* three interfaces were removed and its routes cleared; the update of the
\* second failed after its three interfaces were removed, and it was not
\* deleted.
C28_Witness ==
    /\ Called("ProjectPurgeNetwork")
    /\ purge.n = 2 /\ purge.empty = {}
    /\ Cardinality(SubnetsOfProject) = 3
    /\ Succeeded23(Request("delete", "routers", <<1, 0, 0>>))
    /\ \A sn \in SubnetsOfProject :
          Succeeded23(Request("removeInterface", "routers", <<2, sn[1], sn[2]>>))
    /\ log[Len(log)] = [req |-> Request("update", "routers", <<2, 0, 0>>), ok |-> FALSE]
    /\ err = "Error deleting router"

-----------------------------------------------------------------------------
(* C29 *)

\* The port forwardings of a floating IP.
PFsOf(fip) ==
    IF "portforwardings" \in purge.empty THEN {}
    ELSE { <<fip[1], j, 0>> : j \in 1..fip[1] }

\* The positions of the log with a list or delete of the port forwardings
\* of a floating IP.
PFSteps == { i \in Entries23 : log[i].req.kind = "portforwardings" }

\* C29: the delete request of a floating IP is issued only after its port
\* forwardings were listed and every one of them was deleted successfully;
\* when the listing, its extraction or the delete of a port forwarding
\* fails, the floating IP is not deleted and the purge returns an error.
C29_FloatingIPAfterPortForwardings ==
    Done =>
        /\ \A i \in Entries23 :
              log[i].req.op = "delete" /\ log[i].req.kind = "floatingips" =>
                 /\ SucceededBefore(Request("list", "portforwardings", log[i].req.target), i)
                 /\ Request("extract", "portforwardings", log[i].req.target) \notin purge.faults
                 /\ \A pf \in PFsOf(log[i].req.target) :
                       SucceededBefore(Request("delete", "portforwardings", pf), i)
        /\ \A i \in PFSteps :
              \/ ~log[i].ok
              \/ Request("extract", "portforwardings", log[i].req.target) \in purge.faults
              => /\ err # NoErr
                 /\ Times(Request("delete", "floatingips", <<log[i].req.target[1], 0, 0>>)) = 0

\* Two floating IPs: the first was deleted after its port forwarding; of
\* the second, one port forwarding was deleted, the delete of the other
\* failed and the floating IP was not deleted.
C29_Witness ==
    /\ Called("ProjectPurgeNetwork")
    /\ purge.n = 2 /\ purge.empty = {}
    /\ Succeeded23(Request("delete", "portforwardings", <<1, 1, 0>>))
    /\ Succeeded23(Request("delete", "floatingips", <<1, 0, 0>>))
    /\ Succeeded23(Request("delete", "portforwardings", <<2, 1, 0>>))
    /\ log[Len(log)] = [req |-> Request("delete", "portforwardings", <<2, 2, 0>>), ok |-> FALSE]
    /\ Times(Request("delete", "floatingips", <<2, 0, 0>>)) = 0
    /\ err = "Error deleting floating IP port forwarding"

-----------------------------------------------------------------------------
(* C30 *)

\* The kinds the called function clears.
KindsCleared ==
    IF called = "ProjectPurgeCompute" THEN {"servers"}
    ELSE IF called = "ProjectPurgeStorage" THEN {"snapshots", "volumes"}
    ELSE {"floatingips", "ports", "routers", "networks", "secgroups"}

\* Whether a resource is a port that is a replicated HA router interface.
IsHAPort(kind, t) == kind = "ports" /\ t[1] \in purge.ha

\* C30: when ProjectPurgeCompute, ProjectPurgeStorage or
\* ProjectPurgeNetwork returns nil, each resource of the project of each of
\* its kinds got exactly one delete request, which succeeded, but the ports
\* owned by network:ha_router_replicated_interface, which got none; no
\* resource of another project gets a delete request; when the function
\* returns an error, the failed request is the last one, so what was
\* deleted before stays deleted and nothing more is attempted, and no
\* resource is ever asked to be deleted twice.
C30_EachResourceDeletedOnce ==
    Done /\ called \in {"ProjectPurgeCompute", "ProjectPurgeStorage", "ProjectPurgeNetwork"} =>
        /\ err = NoErr =>
              \A kind \in KindsCleared : \A t \in OfThisProject(kind) :
                 IF IsHAPort(kind, t)
                 THEN Times(Request("delete", kind, t)) = 0
                 ELSE /\ Times(Request("delete", kind, t)) = 1
                      /\ Succeeded23(Request("delete", kind, t))
        /\ \A i \in Entries23 :
              /\ log[i].req.op = "delete" /\ log[i].req.kind # "portforwardings" =>
                    /\ log[i].req.kind \in KindsCleared
                    /\ log[i].req.target \in OfThisProject(log[i].req.kind)
                    /\ ~IsHAPort(log[i].req.kind, log[i].req.target)
                    /\ Times(log[i].req) = 1
              /\ ~log[i].ok => i = Len(log) /\ err # NoErr
        /\ err # NoErr => log # <<>> /\ (~log[Len(log)].ok \/ LastExtractFailed)

\* The network purge returned nil for a project with two resources of each
\* kind, the first port being a replicated HA router interface: the second
\* port was deleted and the first was not.
C30_Witness ==
    /\ Called("ProjectPurgeNetwork") /\ err = NoErr
    /\ purge.n = 2 /\ purge.empty = {} /\ purge.ha = {1}
    /\ Times(Request("delete", "ports", <<1, 0, 0>>)) = 0
    /\ Succeeded23(Request("delete", "ports", <<2, 0, 0>>))
    /\ Succeeded23(Request("delete", "secgroups", <<2, 0, 0>>))

=============================================================================
